---- MODULE Spec2Model ----
(***************************************************************************)
(* pyTMD tide-correction drivers:                                          *)
(*   scripts/compute_tides_ICESat2_ATL11.py   (ATL11 driver)               *)
(*   scripts/compute_tides_icebridge_data.py  (IceBridge driver)           *)
(*                                                                         *)
(* The specifications of the module:                                       *)
(*   Spec        the batch / driver control flow of main() and of the two  *)
(*               driver functions: which step reads, which step opens the  *)
(*               output, where an exception leaves the run;                *)
(*   SpecTide    the masked tide computation of one track (along-track,    *)
(*               crossing-track or IceBridge) and what is written for it;  *)
(*   SpecSubset  the index-subset suffix of an IceBridge argument and its  *)
(*               application by the format adapters;                       *)
(*   SpecTime    the packed hhmmss time of an ATM Level-1b record;         *)
(*   SpecLVIS    the elevation, position and uncertainty of an LVIS shot;  *)
(*   SpecHem     the hemisphere flag an adapter returns;                   *)
(*   SpecName    the output filename of two runs on one input filename;    *)
(*   SpecRerun   two runs of a driver on the same track and answers;       *)
(*   SpecWrite   the datasets, fill values and scales of an output group;  *)
(*   SpecRead    the lengths of the arrays an IceBridge adapter returns;   *)
(*   SpecCatalog the model catalog of both drivers, the extraction call    *)
(*               of the storage format and the delta time;                 *)
(*   SpecOutput  the output filenames of two ATL11 inputs of a directory;  *)
(*   SpecPass    the arrays the ATL11 driver passes through to its output. *)
(* The variables of the specifications that are not running keep their     *)
(* idle values.                                                            *)
(***************************************************************************)
EXTENDS Integers, Sequences, FiniteSets, TLC

VARIABLES
    \* ---- Spec: batch and driver control flow
    driver,         \* "ATL11" | "OIB": which script runs
    TIDE_MODEL,     \* the model id handed to the driver function
    batch,          \* args.infile: the input file names, in order
    i,              \* index in batch of the file being processed
    pc,             \* position in main() / the driver function
    OIB,            \* IceBridge local OIB (format key) or "unbound"
    model_format,   \* local model_format or "unbound"
    pairs,          \* ATL11: beam pairs of the input still to process
    track,          \* ATL11: 'AT' or 'XT' of the inner loop
    fault,          \* which external call raised ("none" if none did)
    err,            \* the exception that left the run ("none" if none)
    inputRead,      \* indices of the files whose input data was opened for reading
    out,            \* per file: the output file the run created for it
    \* ---- SpecTide: the tide computation of one track
    kind,           \* "AT" | "XT" | "OIB" | "idle"
    tpc,            \* position in the computation
    delta_time,     \* input times [point][column]
    latitude,       \* input latitude per point
    longitude,      \* input longitude per point
    hc_mask,        \* hc.mask [point][constituent] returned by the extraction
    tide_mask,      \* tide.mask [point][column]
    tide_data,      \* tide.data [point][column]
    cycle,          \* loop variable of the along-track cycle loop
    svc,            \* what the prediction services returned per cell
    calls,          \* the service calls made, in order
    product,        \* what the writer put in the output file
    \* ---- SpecSubset: subsetter of an IceBridge argument
    spc,            \* position
    items,          \* the items the suffix was written from
    arg,            \* the text between the brackets (sequence of characters)
    hasSuffix,      \* whether the argument carries a [..] suffix
    input_subsetter,\* None, or the expanded index list
    nrec,           \* number of records in the input file
    dinput,         \* the records the adapter returns
    file_lines,     \* the record count the adapter returns
    \* ---- SpecTime: the packed time of an ATM Level-1b record
    SFX,            \* 'TXT' | 'qi' | 'h5': the branch of read_ATM_qfit_file
    packed_time,    \* the time of the record: [HH, MM, ms] (ms = SS.mmm in thousandths)
    line_contents,  \* the text that is sliced
    hour,           \* decoded hour, in thousandths
    minute,         \* decoded minute, in thousandths
    second,         \* decoded second, in thousandths
    qpc,            \* position
    \* ---- SpecLVIS: the LVIS adapter (read_LVIS_HDF5_file)
    LDS_VERSION,    \* '1.04' | '2.0.2': the schema generation of the file
    fileID,         \* the datasets of the input file, per point
    file_input,     \* file_input: elev, elev_low, elev_high, lat, lat_low, lon, lon_low
    LVIS_L2_input,  \* the adapter's output: data, lat, lon, error
    lpc,            \* position
    \* ---- SpecHem: the hemisphere flag an adapter returns
    adapter,        \* "icessn" | "qfit" | "lvis": which adapter reads
    lat,            \* ATM: the latitudes of the records the adapter returns
    REGION,         \* LVIS: the region code of the filename
    count,          \* count['N'], count['S']
    HEM,            \* the hemisphere returned ("unbound" before)
    herr,           \* the exception that ended the adapter ("none" if none)
    hpc,            \* position
    \* ---- SpecName: the output filename of two runs on one input filename
    script,         \* "ATL11" | "OIB": which driver names its output
    input_file,     \* the input filename: [name, region, date]
    tide_model,     \* the model id of both runs
    reads,          \* per run, what the adapter returned: [HEM, tmin]
    run,            \* the run that names its output next
    FILENAME,       \* per run, the output filename ("unbound" before)
    \* ---- SpecRerun: two runs of a driver on one track of one input file
    rtrack,         \* "AT" | "XT" | "OIB": the track both runs compute
    hc_any,         \* np.any(hc.mask,axis=1) per point, the same in both runs
    answers,        \* per cell: "fill" (delta_time is fill), "nan" or the tide
    nrun,           \* the run in progress
    rpc,            \* position of the run in progress
    tide,           \* tide[track] of the run in progress: [data, mask]
    outputs,        \* per run, the output file written ("absent" before)
    \* ---- SpecWrite: the writer of one output group
    wdriver,        \* "ATL11" | "OIB": which writer runs
    wmodel,         \* TIDE_MODEL of the run
    FILL_VALUE,     \* the _FillValue attributes of the input file, per source
    todo,           \* the variables the writer has still to create, in order
    h5,             \* the datasets created so far, by path
    werr,           \* the exception that ended the writer ("none" if none)
    wpc,            \* position
    \* ---- SpecRead: an IceBridge adapter read and the datasets written from it
    ftype,          \* "ascii" | "hdf5" | "qfit": how the input file is stored
    contents,       \* the lines (ascii) or the records of the input file
    subsetter,      \* input_subsetter: None, or the index list
    records,        \* the arrays the adapter returns, by key
    n_lines,        \* file_lines as the adapter returns it
    datasets,       \* the length of every dataset written, by name
    derr,           \* the exception that ended the run ("none" if none)
    dpc,            \* position
    \* ---- SpecCatalog: the model catalog, the extraction and prediction calls
    kdriver,        \* "ATL11" | "OIB": the driver that runs
    kmodel,         \* TIDE_MODEL
    kdesc,          \* the locals the catalog branch of TIDE_MODEL bound
    kextract,       \* the extraction call: its service, arguments and answer
    kdeltat,        \* deltat as the extraction branch set it
    kpredict,       \* the arguments of the prediction calls
    kerr,           \* the exception that ended the run ("none" if none)
    kpc,            \* position
    \* ---- SpecOutput: two ATL11 inputs of one directory, one model
    oinputs,        \* INPUT_FILE of the first and of the second run
    omodel,         \* TIDE_MODEL of both runs
    orun,           \* the run that is next (3 when both are through)
    OUTPUT_FILE,    \* the output filename of each run
    odirectory,     \* the files of DIRECTORY written so far, by name
    \* ---- SpecPass: the arrays the ATL11 driver passes through
    pinput,         \* the arrays of the input product, by pair, track and key
    ppairs,         \* sorted(IS2_atl11_pairs) still to be processed
    heap,           \* the arrays in memory, by buffer
    assembled,      \* IS2_atl11_tide: the buffer of every output variable
    pfile,          \* the output product: the arrays written, by variable
    ppc             \* position

ctlVars  == <<driver, TIDE_MODEL, batch, i, pc, OIB, model_format, pairs, track,
              fault, err, inputRead, out>>
tideVars == <<kind, tpc, delta_time, latitude, longitude, hc_mask, tide_mask,
              tide_data, cycle, svc, calls, product>>
subVars  == <<spc, items, arg, hasSuffix, input_subsetter, nrec, dinput, file_lines>>
timeVars == <<SFX, packed_time, line_contents, hour, minute, second, qpc>>
lvisVars == <<LDS_VERSION, fileID, file_input, LVIS_L2_input, lpc>>
hemVars == <<adapter, lat, REGION, count, HEM, herr, hpc>>
nameVars == <<script, input_file, tide_model, reads, run, FILENAME>>
rerunVars == <<rtrack, hc_any, answers, nrun, rpc, tide, outputs>>
writeVars == <<wdriver, wmodel, FILL_VALUE, todo, h5, werr, wpc>>
readVars == <<ftype, contents, subsetter, records, n_lines, datasets, derr, dpc>>
catVars == <<kdriver, kmodel, kdesc, kextract, kdeltat, kpredict, kerr, kpc>>
outVars == <<oinputs, omodel, orun, OUTPUT_FILE, odirectory>>
passVars == <<pinput, ppairs, heap, assembled, pfile, ppc>>
auxVars  == <<timeVars, lvisVars, hemVars, nameVars, rerunVars, writeVars, readVars, catVars, outVars, passVars>>
\* what the actions of one specification leave alone
notTime  == <<ctlVars, tideVars, subVars, lvisVars, hemVars, nameVars, rerunVars, writeVars, readVars, catVars, outVars, passVars>>
notLvis  == <<ctlVars, tideVars, subVars, timeVars, hemVars, nameVars, rerunVars, writeVars, readVars, catVars, outVars, passVars>>
notHem == <<ctlVars, tideVars, subVars, timeVars, lvisVars, nameVars, rerunVars, writeVars, readVars, catVars, outVars, passVars>>
notName == <<ctlVars, tideVars, subVars, timeVars, lvisVars, hemVars, rerunVars, writeVars, readVars, catVars, outVars, passVars>>
notRerun == <<ctlVars, tideVars, subVars, timeVars, lvisVars, hemVars, nameVars, writeVars, readVars, catVars, outVars, passVars>>
notWrite == <<ctlVars, tideVars, subVars, timeVars, lvisVars, hemVars, nameVars, rerunVars, readVars, catVars, outVars, passVars>>
notRead == <<ctlVars, tideVars, subVars, timeVars, lvisVars, hemVars, nameVars, rerunVars, writeVars, catVars, outVars, passVars>>
notCat == <<ctlVars, tideVars, subVars, timeVars, lvisVars, hemVars, nameVars, rerunVars, writeVars, readVars, outVars, passVars>>
notOut == <<ctlVars, tideVars, subVars, timeVars, lvisVars, hemVars, nameVars, rerunVars, writeVars, readVars, catVars, passVars>>
notPass == <<ctlVars, tideVars, subVars, timeVars, lvisVars, hemVars, nameVars, rerunVars, writeVars, readVars, catVars, outVars>>
vars     == <<ctlVars, tideVars, subVars, auxVars>>

None == "None"

(***************************************************************************)
(* Bounds                                                                  *)
(***************************************************************************)
MaxFiles == 2       \* files in a batch
MaxPairs == 1       \* beam pairs in an ATL11 file
NPoints  == 2       \* points (reference points, crossovers or records) of a track
NCycles  == 2       \* cycle columns of an along-track track
MaxItems == 2       \* comma-separated items of an index-subset suffix

(***************************************************************************)
(* Model registry: the if/elif chain of both drivers                       *)
(***************************************************************************)
OTISModels   == {"CATS0201", "CATS2008", "CATS2008_load", "TPXO9-atlas-v4",
                 "TPXO9.1", "TPXO7.2", "TPXO7.2_load", "AODTM-5", "AOTIM-5",
                 "AOTIM-5-2018", "Gr1km-v2"}
ATLASModels  == {"TPXO8-atlas"}
netcdfModels == {"TPXO9-atlas", "TPXO9-atlas-v2", "TPXO9-atlas-v3"}
GOTModels    == {"GOT4.7", "GOT4.7_load", "GOT4.8", "GOT4.8_load", "GOT4.10",
                 "GOT4.10_load"}
FESModels    == {"FES2014", "FES2014_load"}

model_choices == OTISModels \cup ATLASModels \cup netcdfModels \cup GOTModels
                    \cup FESModels

\* the chain has no else branch: an id outside it binds nothing
ModelFormat(m) ==
    IF m \in OTISModels THEN "OTIS"
    ELSE IF m \in ATLASModels THEN "ATLAS"
    ELSE IF m \in netcdfModels THEN "netcdf"
    ELSE IF m \in GOTModels THEN "GOT"
    ELSE IF m \in FESModels THEN "FES"
    ELSE "unbound"

\* the ids a run of the model is started with: one per storage format, and
\* two ids outside the catalog (the ATL11 default None and a misspelt id)
RunModels == {"CATS2008", "TPXO8-atlas", "TPXO9-atlas-v2", "GOT4.7_load",
              "FES2014", None, "CATS2009"}

(***************************************************************************)
(* File names.  A basename is a mission token and the form of the rest.    *)
(***************************************************************************)
OIBNames ==
    { [mission |-> "ILATM2",  form |-> "icessn"],
      [mission |-> "ILATM1b", form |-> "qfit"],
      [mission |-> "ILATM1B", form |-> "qfit"],
      [mission |-> "ILVIS2",  form |-> "lvis"],
      [mission |-> "ILVGH2",  form |-> "lvis"],
      [mission |-> "notes",   form |-> "other"] }

ATL11Names ==
    { [mission |-> "ATL11",   form |-> "granule"],
      [mission |-> "mytrack", form |-> "other"] }

\* regex['ATM'], regex['ATM1b'], regex['LVIS'], regex['LVGH'] matched against
\* the basename; the key of the matching pattern, or nothing bound
DispatchAcceptAll(name) ==
    IF name.form = "qfit" THEN "ATM1b"
    ELSE IF name.form = "lvis" THEN "LVIS"
    ELSE "ATM"

Dispatch(name) ==
    IF name.form = "icessn" /\ name.mission \in {"BLATM2", "ILATM2"} THEN "ATM"
    ELSE IF name.form = "qfit" /\ name.mission \in {"BLATM1b", "ILATM1b"} THEN "ATM1b"
    ELSE IF name.form = "lvis" /\ name.mission \in {"BLVIS2", "BVLIS2", "ILVIS2"} THEN "LVIS"
    ELSE IF name.form = "lvis" /\ name.mission \in {"ILVGH2"} THEN "LVGH"
    ELSE "unbound"

\* the filename pattern of the adapter that the key selects
AdapterGrammar(key, name) ==
    CASE key = "ATM"   -> name.form = "icessn" /\ name.mission \in {"BLATM2", "ILATM2"}
      [] key = "ATM1b" -> name.form = "qfit"
                            /\ name.mission \in {"BLATM1B", "ILATM1B", "ILNSA1B"}
      [] key \in {"LVIS", "LVGH"} ->
                          name.form = "lvis"
                            /\ name.mission \in {"BLVIS2", "BVLIS2", "ILVIS2", "ILVGH2"}
      [] OTHER -> FALSE

(***************************************************************************)
(* Idle values of the variables of a specification that is not running     *)
(***************************************************************************)
CtlIdle ==
    /\ driver = "idle" /\ TIDE_MODEL = None /\ batch = <<>> /\ i = 0
    /\ pc = "idle" /\ OIB = "unbound" /\ model_format = "unbound"
    /\ pairs = 0 /\ track = "AT" /\ fault = "none" /\ err = "none"
    /\ inputRead = {} /\ out = <<>>

TideIdle ==
    /\ kind = "idle" /\ tpc = "idle" /\ delta_time = <<>> /\ latitude = <<>>
    /\ longitude = <<>> /\ hc_mask = <<>> /\ tide_mask = <<>> /\ tide_data = <<>>
    /\ cycle = 0 /\ svc = <<>> /\ calls = <<>> /\ product = <<>>

SubIdle ==
    /\ spc = "idle" /\ items = <<>> /\ arg = <<>> /\ hasSuffix = FALSE
    /\ input_subsetter = [none |-> TRUE, list |-> <<>>]
    /\ nrec = 0 /\ dinput = <<>> /\ file_lines = 0

TimeIdle ==
    /\ SFX = "idle" /\ packed_time = <<>> /\ line_contents = <<>>
    /\ hour = 0 /\ minute = 0 /\ second = 0 /\ qpc = "idle"

LvisIdle ==
    /\ LDS_VERSION = "idle" /\ fileID = <<>> /\ file_input = <<>>
    /\ LVIS_L2_input = <<>> /\ lpc = "idle"

HemIdle ==
    /\ adapter = "idle" /\ lat = <<>> /\ REGION = "none" /\ count = <<>>
    /\ HEM = "unbound" /\ herr = "none" /\ hpc = "idle"

NameIdle ==
    /\ script = "idle" /\ input_file = <<>> /\ tide_model = None
    /\ reads = <<>> /\ run = 0 /\ FILENAME = <<>>

RerunIdle ==
    /\ rtrack = "idle" /\ hc_any = <<>> /\ answers = <<>> /\ nrun = 0
    /\ rpc = "idle" /\ tide = <<>> /\ outputs = <<>>

WriteIdle ==
    /\ wdriver = "idle" /\ wmodel = None /\ FILL_VALUE = <<>> /\ todo = <<>>
    /\ h5 = <<>> /\ werr = "none" /\ wpc = "idle"

ReadIdle ==
    /\ ftype = "idle" /\ contents = <<>> /\ subsetter = <<>> /\ records = <<>>
    /\ n_lines = 0 /\ datasets = <<>> /\ derr = "none" /\ dpc = "idle"

CatIdle ==
    /\ kdriver = "idle" /\ kmodel = "idle" /\ kdesc = <<>> /\ kextract = <<>>
    /\ kdeltat = <<>> /\ kpredict = <<>> /\ kerr = "none" /\ kpc = "idle"

OutIdle ==
    /\ oinputs = <<>> /\ omodel = "idle" /\ orun = 0 /\ OUTPUT_FILE = <<>>
    /\ odirectory = <<>>

PassIdle ==
    /\ pinput = <<>> /\ ppairs = <<>> /\ heap = <<>> /\ assembled = <<>>
    /\ pfile = <<>> /\ ppc = "idle"

AuxIdleExcept(g) ==
    /\ (g # "time" => TimeIdle)
    /\ (g # "lvis" => LvisIdle)
    /\ (g # "hem" => HemIdle)
    /\ (g # "name" => NameIdle)
    /\ (g # "rerun" => RerunIdle)
    /\ (g # "write" => WriteIdle)
    /\ (g # "read" => ReadIdle)
    /\ (g # "cat" => CatIdle)
    /\ (g # "out" => OutIdle)
    /\ (g # "pass" => PassIdle)

AuxIdle == AuxIdleExcept("none")

(***************************************************************************)
(* Spec: main() and the driver functions                                   *)
(***************************************************************************)
NoOutput == [state |-> "absent", mode |-> FALSE]

Init ==
    /\ driver \in {"ATL11", "OIB"}
    /\ TIDE_MODEL \in RunModels
    /\ \E n \in 1..MaxFiles :
          batch \in [1..n -> IF driver = "ATL11" THEN ATL11Names ELSE OIBNames]
    /\ i = 1
    /\ pc = "main"
    /\ OIB = "unbound"
    /\ model_format = "unbound"
    /\ pairs = 0
    /\ track = "AT"
    /\ fault = "none"
    /\ err = "none"
    /\ inputRead = {}
    /\ out = [j \in 1..Len(batch) |-> NoOutput]
    /\ TideIdle
    /\ SubIdle
    /\ AuxIdle

\* an exception nobody catches: neither driver function nor main() has a
\* try block around the call, so the exception ends the process
Swallow(e, f, next) ==
    /\ pc' = next
    /\ err' = err
    /\ fault' = f

Propagate(e, f, next) ==
    /\ pc' = "error"
    /\ err' = e
    /\ fault' = f

\* the for loop of main(): the next file, or the end of the run
NextFile ==
    /\ i' = i + 1
    /\ pc' = IF i + 1 > Len(batch) THEN "done" ELSE "main"

\* ---------------- ATL11 driver ----------------
ATL11_SelectModel ==
    /\ driver = "ATL11" /\ pc = "main"
    /\ model_format' = ModelFormat(TIDE_MODEL)
    /\ pc' = "read"
    /\ UNCHANGED <<driver, TIDE_MODEL, batch, i, OIB, pairs, track, fault, err,
                   inputRead, out>>
    /\ UNCHANGED <<tideVars, subVars, auxVars>>

ATL11_ReadInputThenOpen ==
    /\ driver = "ATL11" /\ pc = "read"
    /\ inputRead' = inputRead \cup {i}
    /\ out' = [out EXCEPT ![i].state = "open"]
    /\ \/ /\ \E n \in 0..MaxPairs : pairs' = n
          /\ pc' = "pair"
          /\ UNCHANGED <<fault, err>>
       \/ /\ Propagate("KeyError", "none", "pair")
          /\ UNCHANGED pairs
    /\ UNCHANGED <<driver, TIDE_MODEL, batch, i, OIB, model_format, track>>
    /\ UNCHANGED <<tideVars, subVars, auxVars>>

ATL11_ReadInput ==
    /\ driver = "ATL11" /\ pc = "read"
    /\ inputRead' = inputRead \cup {i}
    /\ \/ /\ \E n \in 0..MaxPairs : pairs' = n
          /\ pc' = "pair"
          /\ UNCHANGED <<fault, err>>
       \/ /\ Propagate("KeyError", "none", "pair")
          /\ UNCHANGED pairs
    /\ UNCHANGED <<driver, TIDE_MODEL, batch, i, OIB, model_format, track, out>>
    /\ UNCHANGED <<tideVars, subVars, auxVars>>

ATL11_BeginPair ==
    /\ driver = "ATL11" /\ pc = "pair" /\ pairs > 0
    /\ track' = "AT"
    /\ pc' = "extract"
    /\ UNCHANGED <<driver, TIDE_MODEL, batch, i, OIB, model_format, pairs, fault,
                   err, inputRead, out>>
    /\ UNCHANGED <<tideVars, subVars, auxVars>>

ATL11_Extract ==
    /\ driver = "ATL11" /\ pc = "extract"
    /\ IF model_format = "unbound"
         THEN Propagate("NameError", "none", "deltat")
         ELSE \/ pc' = "deltat" /\ UNCHANGED <<fault, err>>
              \/ Propagate("ModelIOError", "harmonic", "deltat")
    /\ UNCHANGED <<driver, TIDE_MODEL, batch, i, OIB, model_format, pairs, track,
                   inputRead, out>>
    /\ UNCHANGED <<tideVars, subVars, auxVars>>

ATL11_DeltaT ==
    /\ driver = "ATL11" /\ pc = "deltat"
    /\ IF model_format \in {"OTIS", "ATLAS", "netcdf"}
         THEN pc' = "predict" /\ UNCHANGED <<fault, err>>
         ELSE \/ pc' = "predict" /\ UNCHANGED <<fault, err>>
              \/ Propagate("DeltaTimeError", "deltat", "predict")
    /\ UNCHANGED <<driver, TIDE_MODEL, batch, i, OIB, model_format, pairs, track,
                   inputRead, out>>
    /\ UNCHANGED <<tideVars, subVars, auxVars>>

ATL11_Predict ==
    /\ driver = "ATL11" /\ pc = "predict"
    /\ \/ pc' = "fold" /\ UNCHANGED <<fault, err>>
       \/ Propagate("PredictError", "predict", "fold")
       \/ Propagate("InferError", "minor", "fold")
    /\ UNCHANGED <<driver, TIDE_MODEL, batch, i, OIB, model_format, pairs, track,
                   inputRead, out>>
    /\ UNCHANGED <<tideVars, subVars, auxVars>>

ATL11_Fold ==
    /\ driver = "ATL11" /\ pc = "fold"
    /\ IF track = "AT"
         THEN track' = "XT" /\ pc' = "extract"
         ELSE track' = track /\ pc' = "assemble"
    /\ UNCHANGED <<driver, TIDE_MODEL, batch, i, OIB, model_format, pairs, fault,
                   err, inputRead, out>>
    /\ UNCHANGED <<tideVars, subVars, auxVars>>

ATL11_Assemble ==
    /\ driver = "ATL11" /\ pc = "assemble"
    /\ pairs' = pairs - 1
    /\ pc' = "pair"
    /\ UNCHANGED <<driver, TIDE_MODEL, batch, i, OIB, model_format, track, fault,
                   err, inputRead, out>>
    /\ UNCHANGED <<tideVars, subVars, auxVars>>

\* HDF5_ATL11_tide_write is called once the pair loop has ended
\* h5py.File(FILENAME, 'w') with the permission bits applied at once
ATL11_OpenOutputWithMode ==
    /\ driver = "ATL11" /\ pc = "pair" /\ pairs = 0
    /\ out' = [out EXCEPT ![i] = [state |-> "open", mode |-> TRUE]]
    /\ pc' = "write"
    /\ UNCHANGED <<driver, TIDE_MODEL, batch, i, OIB, model_format, pairs, track,
                   fault, err, inputRead>>
    /\ UNCHANGED <<tideVars, subVars, auxVars>>

ATL11_OpenOutput ==
    /\ driver = "ATL11" /\ pc = "pair" /\ pairs = 0
    /\ out' = [out EXCEPT ![i].state = "open"]
    /\ pc' = "write"
    /\ UNCHANGED <<driver, TIDE_MODEL, batch, i, OIB, model_format, pairs, track,
                   fault, err, inputRead>>
    /\ UNCHANGED <<tideVars, subVars, auxVars>>

ATL11_WriteProduct ==
    /\ driver = "ATL11" /\ pc = "write"
    /\ \/ pc' = "close" /\ UNCHANGED <<fault, err>>
       \/ Propagate("WriteError", "none", "close")
    /\ UNCHANGED <<driver, TIDE_MODEL, batch, i, OIB, model_format, pairs, track,
                   inputRead, out>>
    /\ UNCHANGED <<tideVars, subVars, auxVars>>

ATL11_Close ==
    /\ driver = "ATL11" /\ pc = "close"
    /\ out' = [out EXCEPT ![i].state = "closed"]
    /\ pc' = "chmod"
    /\ UNCHANGED <<driver, TIDE_MODEL, batch, i, OIB, model_format, pairs, track,
                   fault, err, inputRead>>
    /\ UNCHANGED <<tideVars, subVars, auxVars>>

ATL11_Chmod ==
    /\ driver = "ATL11" /\ pc = "chmod"
    /\ out' = [out EXCEPT ![i].mode = TRUE]
    /\ NextFile
    /\ UNCHANGED <<driver, TIDE_MODEL, batch, OIB, model_format, pairs, track,
                   fault, err, inputRead>>
    /\ UNCHANGED <<tideVars, subVars, auxVars>>

\* ---------------- IceBridge driver ----------------
\* the format key of the input file name
OIB_Dispatch ==
    /\ driver = "OIB" /\ pc = "main"
    /\ OIB' = Dispatch(batch[i])
    /\ pc' = "select"
    /\ UNCHANGED <<driver, TIDE_MODEL, batch, i, model_format, pairs, track, fault,
                   err, inputRead, out>>
    /\ UNCHANGED <<tideVars, subVars, auxVars>>

\* the model chain, then attrib[output_variable]: a name the chain did not bind
OIB_SelectModel ==
    /\ driver = "OIB" /\ pc = "select"
    /\ model_format' = ModelFormat(TIDE_MODEL)
    /\ IF ModelFormat(TIDE_MODEL) = "unbound"
         THEN Propagate("NameError", "none", "tokens")
         ELSE pc' = "tokens" /\ UNCHANGED <<fault, err>>
    /\ UNCHANGED <<driver, TIDE_MODEL, batch, i, OIB, pairs, track, inputRead, out>>
    /\ UNCHANGED <<tideVars, subVars, auxVars>>

\* "if OIB in ('ATM','ATM1b')": OIB was bound only if a pattern matched
OIB_FileTokens ==
    /\ driver = "OIB" /\ pc = "tokens"
    /\ IF OIB = "unbound"
         THEN Propagate("UnboundLocalError", "none", "read")
         ELSE pc' = "read" /\ UNCHANGED <<fault, err>>
    /\ UNCHANGED <<driver, TIDE_MODEL, batch, i, OIB, model_format, pairs, track,
                   inputRead, out>>
    /\ UNCHANGED <<tideVars, subVars, auxVars>>

\* the adapter: its own filename pattern first (re.findall(...).pop()), then
\* the datasets of the file
OIB_ReadInput ==
    /\ driver = "OIB" /\ pc = "read"
    /\ IF ~AdapterGrammar(OIB, batch[i])
         THEN /\ Propagate("IndexError", "none", "extract")
              /\ UNCHANGED inputRead
         ELSE /\ inputRead' = inputRead \cup {i}
              /\ \/ pc' = "extract" /\ UNCHANGED <<fault, err>>
                 \/ Propagate("KeyError", "none", "extract")
    /\ UNCHANGED <<driver, TIDE_MODEL, batch, i, OIB, model_format, pairs, track, out>>
    /\ UNCHANGED <<tideVars, subVars, auxVars>>

OIB_Extract ==
    /\ driver = "OIB" /\ pc = "extract"
    /\ \/ pc' = "deltat" /\ UNCHANGED <<fault, err>>
       \/ Propagate("ModelIOError", "harmonic", "deltat")
    /\ UNCHANGED <<driver, TIDE_MODEL, batch, i, OIB, model_format, pairs, track,
                   inputRead, out>>
    /\ UNCHANGED <<tideVars, subVars, auxVars>>

OIB_DeltaT ==
    /\ driver = "OIB" /\ pc = "deltat"
    /\ IF model_format \in {"OTIS", "ATLAS", "netcdf"}
         THEN pc' = "open" /\ UNCHANGED <<fault, err>>
         ELSE \/ pc' = "open" /\ UNCHANGED <<fault, err>>
              \/ Propagate("DeltaTimeError", "deltat", "open")
    /\ UNCHANGED <<driver, TIDE_MODEL, batch, i, OIB, model_format, pairs, track,
                   inputRead, out>>
    /\ UNCHANGED <<tideVars, subVars, auxVars>>

\* h5py.File(..., 'w') comes before the prediction calls
OIB_OpenOutput ==
    /\ driver = "OIB" /\ pc = "open"
    /\ out' = [out EXCEPT ![i].state = "open"]
    /\ pc' = "predict"
    /\ UNCHANGED <<driver, TIDE_MODEL, batch, i, OIB, model_format, pairs, track,
                   fault, err, inputRead>>
    /\ UNCHANGED <<tideVars, subVars, auxVars>>

OIB_Predict ==
    /\ driver = "OIB" /\ pc = "predict"
    /\ \/ pc' = "write" /\ UNCHANGED <<fault, err>>
       \/ Propagate("PredictError", "predict", "write")
       \/ Propagate("InferError", "minor", "write")
    /\ UNCHANGED <<driver, TIDE_MODEL, batch, i, OIB, model_format, pairs, track,
                   inputRead, out>>
    /\ UNCHANGED <<tideVars, subVars, auxVars>>

OIB_WriteProduct ==
    /\ driver = "OIB" /\ pc = "write"
    /\ \/ pc' = "close" /\ UNCHANGED <<fault, err>>
       \/ Propagate("WriteError", "none", "close")
    /\ UNCHANGED <<driver, TIDE_MODEL, batch, i, OIB, model_format, pairs, track,
                   inputRead, out>>
    /\ UNCHANGED <<tideVars, subVars, auxVars>>

OIB_Close ==
    /\ driver = "OIB" /\ pc = "close"
    /\ out' = [out EXCEPT ![i].state = "closed"]
    /\ pc' = "chmod"
    /\ UNCHANGED <<driver, TIDE_MODEL, batch, i, OIB, model_format, pairs, track,
                   fault, err, inputRead>>
    /\ UNCHANGED <<tideVars, subVars, auxVars>>

OIB_Chmod ==
    /\ driver = "OIB" /\ pc = "chmod"
    /\ out' = [out EXCEPT ![i].mode = TRUE]
    /\ NextFile
    /\ UNCHANGED <<driver, TIDE_MODEL, batch, OIB, model_format, pairs, track,
                   fault, err, inputRead>>
    /\ UNCHANGED <<tideVars, subVars, auxVars>>

Next ==
    \/ ATL11_SelectModel
    \/ ATL11_ReadInput
    \/ ATL11_BeginPair
    \/ ATL11_Extract
    \/ ATL11_DeltaT
    \/ ATL11_Predict
    \/ ATL11_Fold
    \/ ATL11_Assemble
    \/ ATL11_OpenOutput
    \/ ATL11_WriteProduct
    \/ ATL11_Close
    \/ ATL11_Chmod
    \/ OIB_Dispatch
    \/ OIB_SelectModel
    \/ OIB_FileTokens
    \/ OIB_ReadInput
    \/ OIB_Extract
    \/ OIB_DeltaT
    \/ OIB_OpenOutput
    \/ OIB_Predict
    \/ OIB_WriteProduct
    \/ OIB_Close
    \/ OIB_Chmod

Spec == Init /\ [][Next]_vars

(***************************************************************************)
(* SpecTide: the masked tide computation of one track.                     *)
(* kind "AT" is tide['AT'] (n_points x n_cycles), kind "XT" is tide['XT']  *)
(* (one column), kind "OIB" is the IceBridge tide (one column).            *)
(***************************************************************************)
Points       == 1..NPoints
Cycles       == 1..NCycles
Constituents == {"m2", "s2"}                \* c: the constituent ids of hc
Columns(k)   == IF k = "AT" THEN Cycles ELSE {1}

NaN        == -1                            \* numpy's nan
fv         == 340                           \* attrs['h_corr']['_FillValue']
fill_value == -9999                         \* IceBridge fill_value
dt_fill    == 999                           \* delta_time[track].fill_value
FillOf(k)  == IF k = "OIB" THEN fill_value ELSE fv

\* the valid time of a cell
TimeOf(p, c) == p + NPoints * (c - 1)

\* what np.ma.empty may hold, and what the prediction services may return
\* for a point (metres of tide: never the fill value)
Garbage   == {NaN, 0}
PredVals  == {NaN, 3}
MinorVals == {NaN, 1}

\* floating-point addition: nan is absorbing
Add(a, b) == IF a = NaN \/ b = NaN THEN NaN ELSE a + b

\* the coordinates a track is drawn with: poleward and eastward
LatOf(p) == (0 - 70) - p
LonOf(p) == 10 + p

Min(S) == CHOOSE x \in S : \A y \in S : x <= y
Max(S) == CHOOSE x \in S : \A y \in S : x >= y

\* np.any(hc.mask, axis=1) at one point
AllMask(row) == \A k \in Constituents : row[k]

AnyMask(row) == \E k \in Constituents : row[k]

InitTide ==
    /\ CtlIdle
    /\ SubIdle
    /\ AuxIdle
    /\ kind \in {"AT", "XT", "OIB"}
    /\ \E f \in [Points -> [Columns(kind) -> BOOLEAN]] :
          /\ (kind = "OIB" => \A p \in Points : ~f[p][1])
          /\ delta_time = [p \in Points |-> [c \in Columns(kind) |->
                              IF f[p][c] THEN dt_fill ELSE TimeOf(p, c)]]
    /\ latitude = [p \in Points |-> LatOf(p)]
    /\ longitude = [p \in Points |-> LonOf(p)]
    /\ tpc = IF kind = "OIB" THEN "extract" ELSE "alloc"
    /\ hc_mask = <<>>
    /\ tide_mask = <<>>
    /\ tide_data = <<>>
    /\ cycle = 0
    /\ svc = {}
    /\ calls = <<>>
    /\ product = <<>>

\* ---------------- ATL11: one pass of "for track in ['AT','XT']" ----------
\* tide[track] = np.ma.empty(...); tide[track].mask = (delta_time == fill)
T_Allocate ==
    /\ kind \in {"AT", "XT"} /\ tpc = "alloc"
    /\ \E g \in Garbage :
          tide_data' = [p \in Points |-> [c \in Columns(kind) |-> g]]
    /\ tide_mask' = [p \in Points |-> [c \in Columns(kind) |->
                        delta_time[p][c] = dt_fill]]
    /\ tpc' = "extract"
    /\ UNCHANGED <<kind, delta_time, latitude, longitude, hc_mask, cycle, svc,
                   calls, product>>
    /\ UNCHANGED <<ctlVars, subVars, auxVars>>

\* extract_*_constants: amp, ph with their mask; hc = amp*exp(cph)
T_Extract ==
    /\ kind \in {"AT", "XT"} /\ tpc = "extract"
    /\ hc_mask' \in [Points -> [Constituents -> BOOLEAN]]
    /\ calls' = Append(calls, [name |-> "extract", col |-> 0, pts |-> Points])
    /\ cycle' = 1
    /\ tpc' = IF kind = "AT" THEN "cycle" ELSE "flat"
    /\ UNCHANGED <<kind, delta_time, latitude, longitude, tide_mask, tide_data,
                   svc, product>>
    /\ UNCHANGED <<ctlVars, subVars, auxVars>>

\* tide.mask[:,cycle] |= np.any(hc.mask,axis=1) at one point
CycleMaskCarried(p, c) ==
    \/ \E c2 \in 1..c : tide_mask[p][c2]
    \/ AnyMask(hc_mask[p])

CycleMask(p, c) == tide_mask[p][c] \/ AnyMask(hc_mask[p])

\* a call of predict_tide_drift or infer_minor_corrections on column c: the
\* rows of the time argument (pts), of the harmonic constants (hc) and of
\* DELTAT (deltat)
ServiceCallAllRows(name, c, rows) ==
    [name |-> name, col |-> c, pts |-> rows, hc |-> Points, deltat |-> rows]

ServiceCall(name, c, rows) ==
    [name |-> name, col |-> c, pts |-> rows, hc |-> rows, deltat |-> rows]

\* valid, = np.nonzero(~tide.mask[:,cycle])
Valid(c) == {p \in Points : ~CycleMask(p, c)}

\* the body of the cycle loop (and of the flat branch) for column c
PredictColumn(c) ==
    \E pr \in [Valid(c) -> PredVals], mi \in [Valid(c) -> MinorVals] :
        /\ tide_mask' = [p \in Points |-> [tide_mask[p] EXCEPT ![c] = CycleMask(p, c)]]
        /\ tide_data' = [p \in Points |->
                            IF p \in Valid(c)
                              THEN [tide_data[p] EXCEPT ![c] = Add(pr[p], mi[p])]
                              ELSE tide_data[p]]
        /\ svc' = svc \cup {[p |-> p, c |-> c, v |-> Add(pr[p], mi[p])] : p \in Valid(c)}
        /\ calls' = calls \o << ServiceCall("predict", c, Valid(c)),
                                ServiceCall("minor", c, Valid(c)) >>

T_PredictCycle ==
    /\ kind = "AT" /\ tpc = "cycle"
    /\ PredictColumn(cycle)
    /\ cycle' = cycle + 1
    /\ tpc' = IF cycle = NCycles THEN "fold" ELSE "cycle"
    /\ UNCHANGED <<kind, delta_time, latitude, longitude, hc_mask, product>>
    /\ UNCHANGED <<ctlVars, subVars, auxVars>>

T_PredictFlat ==
    /\ kind = "XT" /\ tpc = "flat"
    /\ PredictColumn(1)
    /\ tpc' = "fold"
    /\ UNCHANGED <<kind, delta_time, latitude, longitude, hc_mask, cycle, product>>
    /\ UNCHANGED <<ctlVars, subVars, auxVars>>

\* invalid = np.nonzero(np.isnan(tide.data) | tide.mask)
Invalid(p, c) == tide_data[p][c] = NaN \/ tide_mask[p][c]

\* tide.data[invalid] = tide.fill_value; tide.mask[invalid] = True
T_Fold ==
    /\ kind \in {"AT", "XT"} /\ tpc = "fold"
    /\ tide_data' = [p \in Points |-> [c \in Columns(kind) |->
                        IF Invalid(p, c) THEN fv ELSE tide_data[p][c]]]
    /\ tide_mask' = [p \in Points |-> [c \in Columns(kind) |->
                        Invalid(p, c) \/ tide_mask[p][c]]]
    /\ tpc' = "write"
    /\ UNCHANGED <<kind, delta_time, latitude, longitude, hc_mask, cycle, svc,
                   calls, product>>
    /\ UNCHANGED <<ctlVars, subVars, auxVars>>

\* lon.min(), lon.max(), lat.min(), lat.max(): the arrays as read, whole
BoundsOf(pts) ==
    [lat_min |-> Min({latitude[p] : p \in pts}),
     lat_max |-> Max({latitude[p] : p \in pts}),
     lon_min |-> Min({longitude[p] : p \in pts}),
     lon_max |-> Max({longitude[p] : p \in pts})]

\* the assembler copies tide[track] and the writer stores it with its fill
\* value; the file-level bounds come from the along-track latitude/longitude
T_Write ==
    /\ kind \in {"AT", "XT"} /\ tpc = "write"
    /\ product' = [tide |-> tide_data,
                   fillvalue |-> fv,
                   delta_time |-> delta_time,
                   latitude |-> latitude,
                   longitude |-> longitude,
                   geospatial |-> IF kind = "AT" THEN BoundsOf(Points)
                                  ELSE [lat_min |-> 0, lat_max |-> 0,
                                        lon_min |-> 0, lon_max |-> 0]]
    /\ tpc' = "written"
    /\ UNCHANGED <<kind, delta_time, latitude, longitude, hc_mask, tide_mask,
                   tide_data, cycle, svc, calls>>
    /\ UNCHANGED <<ctlVars, subVars, auxVars>>

\* ---------------- IceBridge ----------------
O_Extract ==
    /\ kind = "OIB" /\ tpc = "extract"
    /\ hc_mask' \in [Points -> [Constituents -> BOOLEAN]]
    /\ calls' = Append(calls, [name |-> "extract", col |-> 0, pts |-> Points])
    /\ tpc' = "predict"
    /\ UNCHANGED <<kind, delta_time, latitude, longitude, tide_mask, tide_data,
                   cycle, svc, product>>
    /\ UNCHANGED <<ctlVars, subVars, auxVars>>

\* tide.mask = np.any(hc.mask,axis=1); tide.data[:] = predict + minor over
\* every point; tide.data[tide.mask] = tide.fill_value
O_Predict ==
    /\ kind = "OIB" /\ tpc = "predict"
    /\ \E pr \in [Points -> PredVals], mi \in [Points -> MinorVals] :
          /\ tide_mask' = [p \in Points |-> [c \in {1} |-> AnyMask(hc_mask[p])]]
          /\ tide_data' = [p \in Points |-> [c \in {1} |->
                              IF AnyMask(hc_mask[p]) THEN fill_value
                              ELSE Add(pr[p], mi[p])]]
          /\ svc' = {[p |-> p, c |-> 1, v |-> Add(pr[p], mi[p])] : p \in Points}
          /\ calls' = calls \o << ServiceCall("predict", 1, Points),
                                  ServiceCall("minor", 1, Points) >>
    /\ tpc' = "write"
    /\ UNCHANGED <<kind, delta_time, latitude, longitude, hc_mask, cycle, product>>
    /\ UNCHANGED <<ctlVars, subVars, auxVars>>

O_Write ==
    /\ kind = "OIB" /\ tpc = "write"
    /\ product' = [tide |-> tide_data,
                   fillvalue |-> fill_value,
                   delta_time |-> delta_time,
                   latitude |-> latitude,
                   longitude |-> longitude,
                   geospatial |-> BoundsOf(Points)]
    /\ tpc' = "written"
    /\ UNCHANGED <<kind, delta_time, latitude, longitude, hc_mask, tide_mask,
                   tide_data, cycle, svc, calls>>
    /\ UNCHANGED <<ctlVars, subVars, auxVars>>

NextTide ==
    \/ T_Allocate
    \/ T_Extract
    \/ T_PredictCycle
    \/ T_PredictFlat
    \/ T_Fold
    \/ T_Write
    \/ O_Extract
    \/ O_Predict
    \/ O_Write

SpecTide == InitTide /\ [][NextTide]_vars

(***************************************************************************)
(* SpecSubset: the index-subset suffix of an IceBridge argument.           *)
(* A text is a sequence of one-character strings; a record of the input    *)
(* file is identified by its 0-based position in the file.                 *)
(***************************************************************************)
Digits == <<"0", "1", "2", "3", "4", "5", "6", "7", "8", "9">>

IsDigit(ch) == \E d \in 1..Len(Digits) : Digits[d] = ch
DigitVal(ch) == (CHOOSE d \in 1..Len(Digits) : Digits[d] = ch) - 1

\* the indices an item is written with, and the record counts of a file
Indices     == {0, 1, 2, 5, 10}
FileLengths == {3, 6, 11}

Items ==
    [kind : {"index"}, a : Indices, b : {0}] \cup [kind : {"range"}, a : Indices, b : Indices]

RECURSIVE Decimal(_)
\* the decimal text of a number
Decimal(n) ==
    IF n < 10 THEN <<Digits[n + 1]>>
    ELSE Decimal(n \div 10) \o <<Digits[(n % 10) + 1]>>

\* the text of one item: "i" or "a-b"
ItemText(it) ==
    IF it.kind = "index" THEN Decimal(it.a)
    ELSE Decimal(it.a) \o <<"-">> \o Decimal(it.b)

RECURSIVE SuffixText(_)
\* the text between the brackets: the items joined by commas
SuffixText(its) ==
    IF Len(its) = 0 THEN <<>>
    ELSE IF Len(its) = 1 THEN ItemText(its[1])
    ELSE ItemText(its[1]) \o <<",">> \o SuffixText(Tail(its))

RECURSIVE RunEnd(_, _)
\* \d+ from position k (a digit): the position of the last digit of the run
RunEnd(s, k) ==
    IF k < Len(s) /\ IsDigit(s[k + 1]) THEN RunEnd(s, k + 1) ELSE k

RECURSIVE FindAll(_, _)
\* re.findall(r'((\d+)-(\d+)|(\d+))', s) scanning from position k: the
\* groups 2, 3 and 4 of each match, an unmatched group being the empty text
FindAll(s, k) ==
    IF k > Len(s) THEN <<>>
    ELSE IF ~IsDigit(s[k]) THEN FindAll(s, k + 1)
    ELSE LET e == RunEnd(s, k) IN
         IF e + 2 <= Len(s) /\ s[e + 1] = "-" /\ IsDigit(s[e + 2])
           THEN LET f == RunEnd(s, e + 2) IN
                << [g1 |-> SubSeq(s, k, e), g2 |-> SubSeq(s, e + 2, f),
                    g3 |-> <<>>] >> \o FindAll(s, f + 1)
           ELSE << [g1 |-> <<>>, g2 |-> <<>>, g3 |-> SubSeq(s, k, e)] >>
                    \o FindAll(s, e + 1)

RECURSIVE int(_)
\* int() of a text of digits
int(t) ==
    IF Len(t) = 0 THEN 0
    ELSE 10 * int(SubSeq(t, 1, Len(t) - 1)) + DigitVal(t[Len(t)])

\* list(range(a, b)): a, a+1, ..., b-1
range(a, b) == IF b > a THEN [k \in 1..(b - a) |-> a + k - 1] ELSE <<>>

RECURSIVE Decompress(_)
\* the loop over the matches: append int(i[3]) if i[3], else
\* extend(range(int(i[1]), int(i[2])+1))
Decompress(ms) ==
    IF Len(ms) = 0 THEN <<>>
    ELSE (IF Len(ms[1].g3) > 0 THEN <<int(ms[1].g3)>>
          ELSE range(int(ms[1].g1), int(ms[1].g2) + 1))
         \o Decompress(Tail(ms))

\* Python truth value of input_subsetter: None and [] are both false
Truthy(x) == ~x.none /\ Len(x.list) > 0

InitSubset ==
    /\ CtlIdle
    /\ TideIdle
    /\ AuxIdle
    /\ spc = "parse"
    /\ hasSuffix \in BOOLEAN
    /\ \E n \in 0..MaxItems :
          /\ items \in [1..n -> Items]
          /\ (~hasSuffix => n = 0)
    /\ arg = SuffixText(items)
    /\ nrec \in FileLengths
    /\ input_subsetter = [none |-> TRUE, list |-> <<>>]
    /\ dinput = <<>>
    /\ file_lines = 0

\* match_object.group(2) decides between the list and None
S_Parse ==
    /\ spc = "parse"
    /\ input_subsetter' =
          IF hasSuffix THEN [none |-> FALSE, list |-> Decompress(FindAll(arg, 1))]
          ELSE [none |-> TRUE, list |-> <<>>]
    /\ spc' = "read"
    /\ UNCHANGED <<items, arg, hasSuffix, nrec, dinput, file_lines>>
    /\ UNCHANGED <<ctlVars, tideVars, auxVars>>

\* file_length that leaves the subsetter out
file_lengthOfFile(x, n) == n

\* file_length(input_file, input_subsetter)
file_length(x, n) == IF Truthy(x) THEN Len(x.list) ELSE n

\* an adapter: every record of the file is read, then val[input_subsetter]
\* is taken when input_subsetter is true
S_Read ==
    /\ spc = "read"
    /\ Truthy(input_subsetter) =>
          \A j \in 1..Len(input_subsetter.list) : input_subsetter.list[j] < nrec
    /\ file_lines' = file_length(input_subsetter, nrec)
    /\ dinput' = LET val == [k \in 1..nrec |-> k - 1] IN
                 IF Truthy(input_subsetter)
                   THEN [j \in 1..Len(input_subsetter.list) |->
                            val[input_subsetter.list[j] + 1]]
                   ELSE val
    /\ spc' = "done"
    /\ UNCHANGED <<items, arg, hasSuffix, nrec, input_subsetter>>
    /\ UNCHANGED <<ctlVars, tideVars, auxVars>>

\* val[input_subsetter] with an index past the end of the file: IndexError
S_ReadIndexError ==
    /\ spc = "read"
    /\ Truthy(input_subsetter)
    /\ \E j \in 1..Len(input_subsetter.list) : input_subsetter.list[j] >= nrec
    /\ spc' = "error"
    /\ UNCHANGED <<items, arg, hasSuffix, nrec, input_subsetter, dinput, file_lines>>
    /\ UNCHANGED <<ctlVars, tideVars, auxVars>>

NextSubset ==
    \/ S_Parse
    \/ S_Read
    \/ S_ReadIndexError

SpecSubset == InitSubset /\ [][NextSubset]_vars

(***************************************************************************)
(* SpecTime: the time of one ATM Level-1b record (read_ATM_qfit_file).     *)
(* A number with a fraction is held in thousandths: 0.5 is 500.            *)
(***************************************************************************)
Hours   == {0, 9, 12, 23}
Minutes == {0, 5, 59}
Millis  == {0, 500, 9999, 59999}

\* HHMMSS.mmm in thousandths
Packed(t) == ((t.HH * 100 + t.MM) * 100) * 1000 + t.ms

RECURSIVE PadLeft(_, _)
\* zero padding on the left to width w
PadLeft(t, w) == IF Len(t) >= w THEN t ELSE PadLeft(<<"0">> \o t, w)

\* '{0:.3f}'.format(v)
Format3f(v) == Decimal(v \div 1000) \o <<".">> \o PadLeft(Decimal(v % 1000), 3)

\* '{0:010.3f}'.format(v)
Format010_3f(v) == PadLeft(Format3f(v), 10)

\* t[a:b]
Slice(t, a, b) ==
    IF a >= Len(t) \/ b <= a THEN <<>>
    ELSE SubSeq(t, a + 1, IF b > Len(t) THEN Len(t) ELSE b)

RECURSIVE PadRight(_, _)
PadRight(t, w) == IF Len(t) >= w THEN t ELSE PadRight(t \o <<"0">>, w)

\* np.float64(t) of a text of digits with at most one point, in thousandths
Float64(t) ==
    LET dots == {k \in 1..Len(t) : t[k] = "."}
        d    == IF dots = {} THEN Len(t) + 1 ELSE CHOOSE k \in dots : TRUE
    IN  int(SubSeq(t, 1, d - 1)) * 1000
          + int(SubSeq(PadRight(SubSeq(t, d + 1, Len(t)), 3), 1, 3))

InitTime ==
    /\ CtlIdle
    /\ TideIdle
    /\ SubIdle
    /\ AuxIdleExcept("time")
    /\ SFX \in {"TXT", "qi", "h5"}
    /\ packed_time \in [HH : Hours, MM : Minutes, ms : Millis]
    /\ line_contents = <<>>
    /\ hour = 0 /\ minute = 0 /\ second = 0
    /\ qpc = "read"

\* Level-1b binary and HDF5: line_contents = '{0:010.3f}'.format(packed_time)
Q_Format ==
    /\ qpc = "read" /\ SFX \in {"qi", "h5"}
    /\ line_contents' = Format010_3f(Packed(packed_time))
    /\ qpc' = "slice"
    /\ UNCHANGED <<SFX, packed_time, hour, minute, second>>
    /\ UNCHANGED notTime

\* qi2txt ascii: line_contents[-1], the last number of the line as the file
\* has it, written with or without leading zeros
Q_Token ==
    /\ qpc = "read" /\ SFX = "TXT"
    /\ line_contents' \in {Format3f(Packed(packed_time)),
                           Format010_3f(Packed(packed_time))}
    /\ qpc' = "slice"
    /\ UNCHANGED <<SFX, packed_time, hour, minute, second>>
    /\ UNCHANGED notTime

\* hour = float(s[:2]); minute = float(s[2:4]); second = float(s[4:])
Q_Slice ==
    /\ qpc = "slice"
    /\ hour' = Float64(Slice(line_contents, 0, 2))
    /\ minute' = Float64(Slice(line_contents, 2, 4))
    /\ second' = Float64(Slice(line_contents, 4, Len(line_contents)))
    /\ qpc' = "done"
    /\ UNCHANGED <<SFX, packed_time, line_contents>>
    /\ UNCHANGED notTime

NextTime ==
    \/ Q_Format
    \/ Q_Token
    \/ Q_Slice

SpecTime == InitTime /\ [][NextTime]_vars

(***************************************************************************)
(* SpecLVIS: the LVIS adapter (read_LVIS_HDF5_file) on a file of NPoints   *)
(* shots.  Elevations and coordinates are whole numbers; the uncertainty   *)
(* is held in thousandths.                                                 *)
(***************************************************************************)
Shots == 1..NPoints

\* floating-point multiplication and division: x/0 and nan are not finite
Mul(a, b) == IF a = NaN \/ b = NaN THEN NaN ELSE a * b
Div(a, b) == IF a = NaN \/ b = NaN \/ b = 0 THEN NaN ELSE a \div b
Sub(a, b) == IF a = NaN \/ b = NaN THEN NaN ELSE a - b

\* np.sqrt(x/2.0), in thousandths
SqrtHalf(x) ==
    IF x = NaN THEN NaN
    ELSE CHOOSE k \in 0..(1000 * x) :
            /\ 2 * k * k <= x * 1000000
            /\ 2 * (k + 1) * (k + 1) > x * 1000000

\* one shot of the file.  low/high are Elevation_Low/High; centroid is
\* Elevation_Centroid (LDS 1.04); RH50/RH100 are Waveform/RH50, RH100
\* (LDS 2.0.2); the low return is at (70, 40), the centroid at (71, 41) and
\* the top at (72, 42)
ShotValues ==
    [low : {100}, high : {100, 104}, centroid : {100, 102},
     RH50 : {0, 2}, RH100 : {0, 4}]

elev_low_lat  == 70
elev_low_lon  == 40
centroid_lat  == 71
centroid_lon  == 41
top_lat       == 72
top_lon       == 42

InitLVIS ==
    /\ CtlIdle
    /\ TideIdle
    /\ SubIdle
    /\ AuxIdleExcept("lvis")
    /\ LDS_VERSION \in {"1.04", "2.0.2"}
    /\ fileID \in [Shots -> ShotValues]
    /\ \A p \in Shots :
          IF LDS_VERSION = "1.04"
            THEN fileID[p].RH50 = 0 /\ fileID[p].RH100 = 0
            ELSE fileID[p].centroid = 100
    /\ file_input = <<>>
    /\ LVIS_L2_input = <<>>
    /\ lpc = "read"

\* the datasets of the file, by schema generation
L_Read ==
    /\ lpc = "read"
    /\ file_input' =
          [p \in Shots |->
             IF LDS_VERSION = "1.04"
               THEN [elev      |-> fileID[p].centroid,
                     elev_low  |-> fileID[p].low,
                     elev_high |-> fileID[p].high,
                     lat       |-> centroid_lat,
                     lat_low   |-> elev_low_lat,
                     lon       |-> centroid_lon,
                     lon_low   |-> elev_low_lon]
               ELSE [elev      |-> fileID[p].low + fileID[p].RH50,
                     elev_low  |-> fileID[p].low,
                     elev_high |-> fileID[p].high,
                     lat       |-> Add(elev_low_lat,
                                       Div(Mul(fileID[p].RH50, top_lat - elev_low_lat),
                                           fileID[p].RH100)),
                     lat_low   |-> elev_low_lat,
                     lon       |-> Add(elev_low_lon,
                                       Div(Mul(fileID[p].RH50, top_lon - elev_low_lon),
                                           fileID[p].RH100)),
                     lon_low   |-> elev_low_lon]]
    /\ lpc' = "combine"
    /\ UNCHANGED <<LDS_VERSION, fileID, LVIS_L2_input>>
    /\ UNCHANGED notLvis

\* ii = elev_low == elev_high, jj = elev_low != elev_high; the uncertainty is
\* computed from file_input['elev'] for every shot
L_Combine ==
    /\ lpc = "combine"
    /\ LVIS_L2_input' =
          [p \in Shots |->
             LET f  == file_input[p]
                 ii == f.elev_low = f.elev_high
                 LVIS_variance_low  == Mul(Sub(f.elev_low, f.elev), Sub(f.elev_low, f.elev))
                 LVIS_variance_high == Mul(Sub(f.elev_high, f.elev), Sub(f.elev_high, f.elev))
             IN  [data  |-> IF ii THEN f.elev_low ELSE f.elev,
                  lon   |-> IF ii THEN f.lon_low ELSE f.lon,
                  lat   |-> IF ii THEN f.lat_low ELSE f.lat,
                  error |-> SqrtHalf(Add(LVIS_variance_low, LVIS_variance_high))]]
    /\ lpc' = "done"
    /\ UNCHANGED <<LDS_VERSION, fileID, file_input>>
    /\ UNCHANGED notLvis

NextLVIS ==
    \/ L_Read
    \/ L_Combine

SpecLVIS == InitLVIS /\ [][NextLVIS]_vars

(***************************************************************************)
(* SpecHem: the hemisphere flag of the adapters.  The ATM adapters count   *)
(* the records by latitude sign; the LVIS adapter maps the region code of  *)
(* the filename.                                                           *)
(***************************************************************************)
MaxRecords == 3     \* records an ATM adapter returns

Latitudes == {0 - 72, 0 - 1, 0, 65}
Regions   == {"GL", "AQ", "XX"}

\* lvis_flag = {'GL':'N','AQ':'S'}
lvis_flag == [r \in {"GL", "AQ"} |-> IF r = "GL" THEN "N" ELSE "S"]

\* np.count_nonzero(lat >= 0.0), np.count_nonzero(lat < 0.0)
CountN(l) == Cardinality({k \in 1..Len(l) : l[k] >= 0})
CountS(l) == Cardinality({k \in 1..Len(l) : l[k] < 0})

InitHem ==
    /\ CtlIdle
    /\ TideIdle
    /\ SubIdle
    /\ AuxIdleExcept("hem")
    /\ adapter \in {"icessn", "qfit", "lvis"}
    /\ IF adapter = "lvis"
         THEN lat = <<>> /\ REGION \in Regions
         ELSE /\ \E n \in 1..MaxRecords : lat \in [1..n -> Latitudes]
              /\ REGION = "none"
    /\ count = <<>>
    /\ HEM = "unbound"
    /\ herr = "none"
    /\ hpc = "read"

\* count = {}; count['N'] = ...; count['S'] = ...
H_Count ==
    /\ hpc = "read" /\ adapter \in {"icessn", "qfit"}
    /\ count' = [N |-> CountN(lat), S |-> CountS(lat)]
    /\ hpc' = "unpack"
    /\ UNCHANGED <<adapter, lat, REGION, HEM, herr>>
    /\ UNCHANGED notHem

\* [key for key, val in count.items() if val]
NonEmptyKeys(cnt) == {k \in {"N", "S"} : cnt[k] # 0}

\* HEM, = [...]: the list must have exactly one element
H_Unpack ==
    /\ hpc = "unpack"
    /\ IF Cardinality(NonEmptyKeys(count)) = 1
         THEN /\ HEM' = CHOOSE k \in NonEmptyKeys(count) : TRUE
              /\ hpc' = "done"
              /\ herr' = herr
         ELSE /\ HEM' = HEM
              /\ hpc' = "error"
              /\ herr' = "ValueError"
    /\ UNCHANGED <<adapter, lat, REGION, count>>
    /\ UNCHANGED notHem

\* return LVIS_L2_input,file_lines,lvis_flag[REGION]
H_Region ==
    /\ hpc = "read" /\ adapter = "lvis"
    /\ IF REGION \in DOMAIN lvis_flag
         THEN /\ HEM' = lvis_flag[REGION]
              /\ hpc' = "done"
              /\ herr' = herr
         ELSE /\ HEM' = HEM
              /\ hpc' = "error"
              /\ herr' = "KeyError"
    /\ UNCHANGED <<adapter, lat, REGION, count>>
    /\ UNCHANGED notHem

NextHem ==
    \/ H_Count
    \/ H_Unpack
    \/ H_Region

SpecHem == InitHem /\ [][NextHem]_vars

(***************************************************************************)
(* SpecName: the output filename.  Two runs are given the same input       *)
(* filename and the same model id; the data of the file and the subset     *)
(* selected may differ between them, so what the adapter returns may too.  *)
(* A filename is the tuple of the values its format string is filled with. *)
(***************************************************************************)
Runs == 1..2

\* seconds of np.min(dinput['time']), relative to the start of a day
StartTimes == {100, 43300, 86500}
day        == 86400

NameModels == {"CATS2008", "GOT4.7_load"}

\* the ATL11 name: the granule pattern when rx matches, the generic one
\* otherwise
ATL11_OutputFile(f, m) ==
    IF f.name.form = "granule"
      THEN <<"{0}_{1}_TIDES_{2}{3}_{4}{5}_{6}_{7}{8}.h5", f.name.mission, m, f.date>>
      ELSE <<"{0}_{1}_TIDES{2}", f.name.mission, m, f.date>>

\* hem_flag = {'N':'GR','S':'AN'}
hem_flag == [h \in {"N", "S"} |-> IF h = "N" THEN "GR" ELSE "AN"]

\* the hemisphere the adapter returns: from the region code for LVIS, from
\* the latitudes of the records for ATM
HemOf(f, r) ==
    IF Dispatch(f.name) \in {"LVIS", "LVGH"} THEN lvis_flag[f.region] ELSE r.HEM

\* JJ1 = np.min(dinput['time']) % 86400; FILENAME = '{0}_NASA_{1}_TIDES_WGS84_
\* {2}{3}{4}{5}{6:05.0f}.H5'.format(hem_flag[HEM],TIDE_MODEL,OIB,YY1,MM1,DD1,JJ1)
OIB_OutputFile(f, m, r) ==
    <<"{0}_NASA_{1}_TIDES_WGS84_{2}{3}{4}{5}{6:05.0f}.H5",
      hem_flag[HemOf(f, r)], m, Dispatch(f.name), f.date, r.tmin % day>>

InitName ==
    /\ CtlIdle
    /\ TideIdle
    /\ SubIdle
    /\ AuxIdleExcept("name")
    /\ script \in {"ATL11", "OIB"}
    /\ \E n \in (IF script = "ATL11" THEN ATL11Names
                 ELSE {x \in OIBNames : AdapterGrammar(Dispatch(x), x)}) :
          input_file \in [name : {n}, region : {"GL", "AQ"},
                          date : {"20110101", "20181014"}]
    /\ tide_model \in NameModels
    /\ reads \in [Runs -> [HEM : {"N", "S"}, tmin : StartTimes]]
    /\ run = 1
    /\ FILENAME = [r \in Runs |-> "unbound"]

N_ATL11 ==
    /\ script = "ATL11" /\ run \in Runs
    /\ FILENAME' = [FILENAME EXCEPT ![run] = ATL11_OutputFile(input_file, tide_model)]
    /\ run' = run + 1
    /\ UNCHANGED <<script, input_file, tide_model, reads>>
    /\ UNCHANGED notName

N_OIB ==
    /\ script = "OIB" /\ run \in Runs
    /\ FILENAME' = [FILENAME EXCEPT
                      ![run] = OIB_OutputFile(input_file, tide_model, reads[run])]
    /\ run' = run + 1
    /\ UNCHANGED <<script, input_file, tide_model, reads>>
    /\ UNCHANGED notName

NextName ==
    \/ N_ATL11
    \/ N_OIB

SpecName == InitName /\ [][NextName]_vars

(***************************************************************************)
(* SpecRerun: a driver run twice on the same track of the same input file, *)
(* with the same model and options and the same answers from the services. *)
(* What a run does not share with the other is what np.ma.empty leaves in  *)
(* the array it allocates, and the wall clock.                             *)
(***************************************************************************)
\* the wall clock at the moment the file attributes are written
Clock == {"2021-01-04", "2021-01-05"}

\* the valid tide the services return for a cell
TideOf(p, c) == 3 + c

\* the per-variable attributes: copied from constants of the source and from
\* the input file
VariableAttrs(k) ==
    [tide |-> IF k = "OIB" THEN <<"units", "long_name", "_FillValue">>
              ELSE <<"units", "long_name", "source", "coordinates">>,
     time |-> <<"units", "long_name">>]

\* tide.data[p,c] of the input-valid, unmasked cell after prediction
Predicted(p, c) == IF answers[p][c] = "nan" THEN NaN ELSE TideOf(p, c)

\* invalid = np.nonzero(np.isnan(tide.data) | tide.mask);
\* tide.data[invalid] = tide.fill_value
FoldedNaNOnly(d, m) == IF d = NaN THEN fv ELSE d

Folded(d, m) == IF d = NaN \/ m THEN fv ELSE d

InitRerun ==
    /\ CtlIdle
    /\ TideIdle
    /\ SubIdle
    /\ AuxIdleExcept("rerun")
    /\ rtrack \in {"AT", "XT", "OIB"}
    /\ hc_any \in [Points -> BOOLEAN]
    /\ \E col \in Columns(rtrack) :
       \E f \in [Points -> (IF rtrack = "OIB" THEN {"nan", "tide"}
                            ELSE {"fill", "nan", "tide"})] :
          answers = [p \in Points |-> [c \in Columns(rtrack) |->
                        IF c = col THEN f[p] ELSE "tide"]]
    /\ nrun = 1
    /\ rpc = "alloc"
    /\ tide = <<>>
    /\ outputs = [r \in Runs |-> "absent"]

\* tide = np.ma.empty(...): the data is whatever the memory holds;
\* ATL11: tide.mask = (delta_time == fill_value)
R_Allocate ==
    /\ nrun \in Runs /\ rpc = "alloc"
    /\ \E g \in [Points -> Garbage] :
          tide' = [data |-> [p \in Points |-> [c \in Columns(rtrack) |-> g[p]]],
                   mask |-> [p \in Points |-> [c \in Columns(rtrack) |->
                                answers[p][c] = "fill"]]]
    /\ rpc' = "predict"
    /\ UNCHANGED <<rtrack, hc_any, answers, nrun, outputs>>
    /\ UNCHANGED notRerun

\* ATL11: mask |= any(hc.mask); data[valid] = predict + minor, every column
R_PredictATL11 ==
    /\ nrun \in Runs /\ rpc = "predict" /\ rtrack \in {"AT", "XT"}
    /\ tide' = [data |-> [p \in Points |-> [c \in Columns(rtrack) |->
                            IF tide.mask[p][c] \/ hc_any[p] THEN tide.data[p][c]
                            ELSE Predicted(p, c)]],
                mask |-> [p \in Points |-> [c \in Columns(rtrack) |->
                            tide.mask[p][c] \/ hc_any[p]]]]
    /\ rpc' = "fold"
    /\ UNCHANGED <<rtrack, hc_any, answers, nrun, outputs>>
    /\ UNCHANGED notRerun

\* replace masked and nan values with fill value
R_Fold ==
    /\ nrun \in Runs /\ rpc = "fold"
    /\ tide' = [data |-> [p \in Points |-> [c \in Columns(rtrack) |->
                            Folded(tide.data[p][c], tide.mask[p][c])]],
                mask |-> [p \in Points |-> [c \in Columns(rtrack) |->
                            tide.data[p][c] = NaN \/ tide.mask[p][c]]]]
    /\ rpc' = "write"
    /\ UNCHANGED <<rtrack, hc_any, answers, nrun, outputs>>
    /\ UNCHANGED notRerun

\* IceBridge: tide.mask = any(hc.mask); tide.data[:] = predict + minor;
\* tide.data[tide.mask] = tide.fill_value
R_PredictOIB ==
    /\ nrun \in Runs /\ rpc = "predict" /\ rtrack = "OIB"
    /\ tide' = [data |-> [p \in Points |-> [c \in {1} |->
                            IF hc_any[p] THEN fill_value ELSE Predicted(p, c)]],
                mask |-> [p \in Points |-> [c \in {1} |-> hc_any[p]]]]
    /\ rpc' = "write"
    /\ UNCHANGED <<rtrack, hc_any, answers, nrun, outputs>>
    /\ UNCHANGED notRerun

\* the writer: the group, its variables with their data and attributes, and
\* the file attributes with date_created taken from the clock
R_Write ==
    /\ nrun \in Runs /\ rpc = "write"
    /\ \E now \in Clock :
          outputs' = [outputs EXCEPT ![nrun] =
                        [groups |-> {rtrack},
                         variables |-> [tide |-> tide.data,
                                        latitude |-> [p \in Points |-> LatOf(p)],
                                        longitude |-> [p \in Points |-> LonOf(p)],
                                        time |-> [p \in Points |->
                                            [c \in Columns(rtrack) |->
                                               IF answers[p][c] = "fill" THEN dt_fill
                                               ELSE TimeOf(p, c)]]],
                         attrs |-> VariableAttrs(rtrack),
                         fillvalue |-> FillOf(rtrack),
                         date_created |-> now]]
    /\ nrun' = nrun + 1
    /\ rpc' = IF nrun + 1 \in Runs THEN "alloc" ELSE "done"
    /\ tide' = <<>>
    /\ UNCHANGED <<rtrack, hc_any, answers>>
    /\ UNCHANGED notRerun

NextRerun ==
    \/ R_Allocate
    \/ R_PredictATL11
    \/ R_Fold
    \/ R_PredictOIB
    \/ R_Write

SpecRerun == InitRerun /\ [][NextRerun]_vars

(***************************************************************************)
(* SpecWrite: the writer of one output group: HDF5_ATL11_tide_write for    *)
(* one beam pair, and the dataset part of compute_tides_icebridge_data.    *)
(* A path is <<group, name>>; the groups are "pt" (the beam pair),         *)
(* "cycle_stats", "crossing_track_data" and "root" (IceBridge).            *)
(***************************************************************************)
\* the characters of a model id
ModelText(m) ==
    CASE m = "CATS0201" -> <<"C", "A", "T", "S", "0", "2", "0", "1">>
      [] m = "CATS2008" -> <<"C", "A", "T", "S", "2", "0", "0", "8">>
      [] m = "CATS2008_load" -> <<"C", "A", "T", "S", "2", "0", "0", "8", "_", "l", "o", "a", "d">>
      [] m = "TPXO9-atlas" -> <<"T", "P", "X", "O", "9", "-", "a", "t", "l", "a", "s">>
      [] m = "TPXO9-atlas-v2" -> <<"T", "P", "X", "O", "9", "-", "a", "t", "l", "a", "s", "-", "v", "2">>
      [] m = "TPXO9-atlas-v3" -> <<"T", "P", "X", "O", "9", "-", "a", "t", "l", "a", "s", "-", "v", "3">>
      [] m = "TPXO9-atlas-v4" -> <<"T", "P", "X", "O", "9", "-", "a", "t", "l", "a", "s", "-", "v", "4">>
      [] m = "TPXO9.1" -> <<"T", "P", "X", "O", "9", ".", "1">>
      [] m = "TPXO8-atlas" -> <<"T", "P", "X", "O", "8", "-", "a", "t", "l", "a", "s">>
      [] m = "TPXO7.2" -> <<"T", "P", "X", "O", "7", ".", "2">>
      [] m = "TPXO7.2_load" -> <<"T", "P", "X", "O", "7", ".", "2", "_", "l", "o", "a", "d">>
      [] m = "AODTM-5" -> <<"A", "O", "D", "T", "M", "-", "5">>
      [] m = "AOTIM-5" -> <<"A", "O", "T", "I", "M", "-", "5">>
      [] m = "AOTIM-5-2018" -> <<"A", "O", "T", "I", "M", "-", "5", "-", "2", "0", "1", "8">>
      [] m = "Gr1km-v2" -> <<"G", "r", "1", "k", "m", "-", "v", "2">>
      [] m = "GOT4.7" -> <<"G", "O", "T", "4", ".", "7">>
      [] m = "GOT4.7_load" -> <<"G", "O", "T", "4", ".", "7", "_", "l", "o", "a", "d">>
      [] m = "GOT4.8" -> <<"G", "O", "T", "4", ".", "8">>
      [] m = "GOT4.8_load" -> <<"G", "O", "T", "4", ".", "8", "_", "l", "o", "a", "d">>
      [] m = "GOT4.10" -> <<"G", "O", "T", "4", ".", "1", "0">>
      [] m = "GOT4.10_load" -> <<"G", "O", "T", "4", ".", "1", "0", "_", "l", "o", "a", "d">>
      [] m = "FES2014" -> <<"F", "E", "S", "2", "0", "1", "4">>
      [] m = "FES2014_load" -> <<"F", "E", "S", "2", "0", "1", "4", "_", "l", "o", "a", "d">>

\* variable = ... in the branch of TIDE_MODEL (ATL11 driver)
variableOcean(m) == "tide_ocean"

variable(m) ==
    IF m \in {"CATS2008_load", "TPXO7.2_load", "GOT4.7_load", "GOT4.8_load",
              "GOT4.10_load", "FES2014_load"}
      THEN "tide_load" ELSE "tide_ocean"

\* output_variable = ... in the branch of TIDE_MODEL (IceBridge driver)
output_variable(m) ==
    IF m \in {"CATS2008_load", "TPXO7.2_load", "GOT4.7_load", "GOT4.8_load",
              "GOT4.10_load", "FES2014_load"}
      THEN "tide_load" ELSE "tide_ocean"

\* a fill value: None, or a number
NoFill    == [none |-> TRUE, value |-> 0]
Fill(x)   == [none |-> FALSE, value |-> x]
\* the _FillValue attributes an input file may carry
FillValues == {0, fv}
FillSources == {"delta_time", "latitude", "longitude", "h_corr", "rgt",
                "cycle_number"}

\* the order in which the writer creates the variables of a beam pair: the
\* fixed key list, then the items of cycle_stats and of crossing_track_data
\* in the order the assembler inserted them
PlanTimeFirst(v) ==
    << <<"pt", "delta_time">>, <<"pt", "ref_pt">>, <<"pt", "cycle_number">>,
       <<"pt", "latitude">>, <<"pt", "longitude">>,
       <<"cycle_stats", v>>,
       <<"crossing_track_data", "delta_time">>,
       <<"crossing_track_data", "ref_pt">>, <<"crossing_track_data", "rgt">>,
       <<"crossing_track_data", "cycle_number">>,
       <<"crossing_track_data", "latitude">>,
       <<"crossing_track_data", "longitude">>, <<"crossing_track_data", v>> >>

Plan(v) ==
    << <<"pt", "ref_pt">>, <<"pt", "cycle_number">>, <<"pt", "delta_time">>,
       <<"pt", "latitude">>, <<"pt", "longitude">>,
       <<"cycle_stats", v>>,
       <<"crossing_track_data", "ref_pt">>, <<"crossing_track_data", "rgt">>,
       <<"crossing_track_data", "cycle_number">>,
       <<"crossing_track_data", "delta_time">>,
       <<"crossing_track_data", "latitude">>,
       <<"crossing_track_data", "longitude">>, <<"crossing_track_data", v>> >>

\* IceBridge: lat, lon, the tide variable, time
PlanOIB(v) == << <<"root", "lat">>, <<"root", "lon">>, <<"root", v>>,
                 <<"root", "time">> >>

\* IS2_atl11_fill as the assembler records it
IS2_atl11_fill(path) ==
    LET g == path[1]
        k == path[2]
    IN  IF k = "ref_pt" THEN NoFill
        ELSE IF k \in {"delta_time", "latitude", "longitude"} THEN Fill(FILL_VALUE[k])
        ELSE IF g = "pt" THEN NoFill                          \* cycle_number
        ELSE IF k \in {"rgt", "cycle_number"} THEN Fill(FILL_VALUE[k])
        ELSE Fill(FILL_VALUE["h_corr"])                       \* the tide variable

\* IS2_atl11_dims as the assembler records it (<<>> is None)
IS2_atl11_dims(path) ==
    LET g == path[1]
        k == path[2]
    IN  IF k \in {"ref_pt", "rgt", "cycle_number"} THEN <<>>
        ELSE IF g = "crossing_track_data" THEN <<"ref_pt">>
        ELSE IF k \in {"latitude", "longitude"} THEN <<"ref_pt">>
        ELSE <<"ref_pt", "cycle_number">>

\* the dataset a dimension name is looked up as: h5[ptx][dim] for the pair
\* and for cycle_stats, h5[ptx][key][dim] for crossing_track_data
ScaleOf(g, dim) == IF g = "crossing_track_data" THEN <<g, dim>> ELSE <<"pt", dim>>

\* an attribute value: absent, or a string
NoAttr       == [none |-> TRUE, value |-> ""]
Attr(x)      == [none |-> FALSE, value |-> x]

\* the assignments of the assembler to a 'coordinates' attribute, in program
\* order: the attribute dictionary that is indexed, and the value
CoordinatesAssignments(v) ==
    << << <<"pt", "ref_pt">>, "delta_time latitude longitude" >>,
       << <<"pt", "delta_time">>, "ref_pt cycle_number latitude longitude" >>,
       << <<"pt", "latitude">>, "ref_pt delta_time longitude" >>,
       << <<"pt", "longitude">>, "ref_pt delta_time latitude" >>,
       << <<"cycle_stats", v>>,
          "../ref_pt ../cycle_number ../delta_time ../latitude ../longitude" >>,
       << <<"crossing_track_data", "ref_pt">>, "delta_time latitude longitude" >>,
       << <<"crossing_track_data", "rgt">>,
          "ref_pt delta_time latitude longitude" >>,
       << <<"pt", "delta_time">>, "ref_pt latitude longitude" >>,
       << <<"crossing_track_data", "latitude">>, "ref_pt delta_time longitude" >>,
       << <<"crossing_track_data", "longitude">>, "ref_pt delta_time latitude" >>,
       << <<"crossing_track_data", v>>,
          "ref_pt delta_time latitude longitude" >> >>

\* IS2_atl11_tide_attrs[...]['coordinates'] when the assembler is through:
\* the last assignment to the dictionary of the variable, if any
IS2_atl11_tide_attrs_coordinates(path, v) ==
    LET a    == CoordinatesAssignments(v)
        hits == {n \in DOMAIN a : a[n][1] = path}
    IN  IF hits = {} THEN NoAttr
        ELSE Attr(a[CHOOSE n \in hits : \A k \in hits : k <= n][2])

\* "if fillvalue:" of the writer
bool(f) == ~f.none /\ f.value # 0

\* h5 with one more dataset
Created(path, d) ==
    [x \in (DOMAIN h5) \cup {path} |-> IF x = path THEN d ELSE h5[x]]

InitWrite ==
    /\ CtlIdle
    /\ TideIdle
    /\ SubIdle
    /\ AuxIdleExcept("write")
    /\ wdriver \in {"ATL11", "OIB"}
    /\ wmodel \in model_choices
    /\ FILL_VALUE \in [FillSources -> FillValues]
    /\ (wdriver = "OIB" => \A s \in FillSources : FILL_VALUE[s] = fv)
    /\ todo = IF wdriver = "ATL11" THEN Plan(variable(wmodel))
              ELSE PlanOIB(output_variable(wmodel))
    /\ h5 = <<>>
    /\ werr = "none"
    /\ wpc = "create"

\* one pass of the loop body: create_dataset with or without fillvalue, then
\* attach_scale per dimension or make_scale, then the attributes of the
\* variable
W_Create ==
    /\ wdriver = "ATL11" /\ wpc = "create" /\ todo # <<>>
    /\ LET path      == Head(todo)
           fillvalue == IS2_atl11_fill(path)
           dims      == IS2_atl11_dims(path)
           scales    == [j \in 1..Len(dims) |-> ScaleOf(path[1], dims[j])]
           missing   == \E j \in 1..Len(dims) : scales[j] \notin DOMAIN h5
       IN  /\ h5' = Created(path,
                       [fill  |-> IF bool(fillvalue) THEN fillvalue ELSE NoFill,
                        scale |-> dims = <<>>,
                        dims  |-> scales,
                        coordinates |->
                            IS2_atl11_tide_attrs_coordinates(path,
                                                        variable(wmodel))])
           /\ werr' = IF missing THEN "KeyError" ELSE "none"
           /\ wpc' = IF missing THEN "error"
                     ELSE IF Len(todo) = 1 THEN "done" ELSE "create"
           /\ todo' = Tail(todo)
    /\ UNCHANGED <<wdriver, wmodel, FILL_VALUE>>
    /\ UNCHANGED notWrite

\* IceBridge: lat, lon and time are created with no fill value, the tide
\* with fillvalue=fill_value; no scale is made or attached
W_CreateOIB ==
    /\ wdriver = "OIB" /\ wpc = "create" /\ todo # <<>>
    /\ LET path == Head(todo)
       IN  h5' = Created(path,
                    [fill  |-> IF path[2] \in {"lat", "lon", "time"} THEN NoFill
                               ELSE Fill(fill_value),
                     scale |-> FALSE,
                     dims  |-> <<>>])
    /\ wpc' = IF Len(todo) = 1 THEN "done" ELSE "create"
    /\ todo' = Tail(todo)
    /\ UNCHANGED <<wdriver, wmodel, FILL_VALUE, werr>>
    /\ UNCHANGED notWrite

NextWrite ==
    \/ W_Create
    \/ W_CreateOIB

SpecWrite == InitWrite /\ [][NextWrite]_vars

(***************************************************************************)
(* SpecRead: an IceBridge adapter read, and the datasets the driver writes *)
(* from it.  A line of an ASCII file is a sequence of characters; a record *)
(* of a binary or HDF5 file is kept as the line it would print as.         *)
(***************************************************************************)
CommentLine == <<"#", " ", "l", "a", "t">>
RecordLine  == <<"7", "0", ".", "5">>

\* re.match(r'^(?!\#)',i)
NotCommented(l) == ~(Len(l) > 0 /\ l[1] = "#")

\* [i for i in f.read().splitlines() if re.match(r'^(?!\#)',i)]
RECURSIVE Uncommented(_)
Uncommented(ls) ==
    IF ls = <<>> THEN <<>>
    ELSE IF NotCommented(Head(ls)) THEN <<Head(ls)>> \o Uncommented(Tail(ls))
    ELSE Uncommented(Tail(ls))

\* the keys of the dictionary every adapter returns that the driver uses
Keys == {"lat", "lon", "time", "data"}

\* the index lists a subsetter may hold: any order, repeats included
SubsetLists == UNION {[1..n -> 0..(MaxRecords - 1)] : n \in 0..MaxItems}

\* the number of records the file holds, as file_length finds it when no
\* subsetter is given: the uncommented lines, or the shape of the variable
Shape == Len(IF ftype = "ascii" THEN Uncommented(contents) ELSE contents)

\* val[input_subsetter]
Take(val, idx) == [j \in 1..Len(idx) |-> val[idx[j] + 1]]

InitRead ==
    /\ CtlIdle
    /\ TideIdle
    /\ SubIdle
    /\ AuxIdleExcept("read")
    /\ ftype \in {"ascii", "hdf5", "qfit"}
    /\ \E n \in 1..MaxRecords :
          contents \in [1..n -> IF ftype = "ascii" THEN {CommentLine, RecordLine}
                                ELSE {RecordLine}]
    /\ \/ subsetter = [none |-> TRUE, list |-> <<>>]
       \/ \E l \in SubsetLists : subsetter = [none |-> FALSE, list |-> l]
    /\ records = <<>>
    /\ n_lines = 0
    /\ datasets = <<>>
    /\ derr = "none"
    /\ dpc = "read"

\* an adapter: file_lines = file_length(...); every array is filled from
\* every record of the file; val[input_subsetter] when the subsetter is true
D_Read ==
    /\ dpc = "read"
    /\ Truthy(subsetter) =>
          \A j \in 1..Len(subsetter.list) : subsetter.list[j] < Shape
    /\ n_lines' = file_length(subsetter, Shape)
    /\ records' = [key \in Keys |->
                     LET val == [k \in 1..Shape |-> k - 1] IN
                     IF Truthy(subsetter) THEN Take(val, subsetter.list) ELSE val]
    /\ dpc' = "write"
    /\ UNCHANGED <<ftype, contents, subsetter, datasets, derr>>
    /\ UNCHANGED notRead

\* val[input_subsetter] with an index past the last record
D_ReadIndexError ==
    /\ dpc = "read"
    /\ Truthy(subsetter)
    /\ \E j \in 1..Len(subsetter.list) : subsetter.list[j] >= Shape
    /\ derr' = "IndexError"
    /\ dpc' = "error"
    /\ UNCHANGED <<ftype, contents, subsetter, records, n_lines, datasets>>
    /\ UNCHANGED notRead

\* tide = np.ma.empty((file_lines)); tide.data[:] = predict_tide_drift(t,..);
\* create_dataset(name, (file_lines,), data=...) for lat, lon, the tide, time
D_Write ==
    /\ dpc = "write"
    /\ IF \A key \in Keys : Len(records[key]) = n_lines
         THEN /\ datasets' = [name \in {"lat", "lon", "tide", "time"} |-> n_lines]
              /\ derr' = "none"
              /\ dpc' = "written"
         ELSE /\ datasets' = datasets
              /\ derr' = "ValueError"
              /\ dpc' = "error"
    /\ UNCHANGED <<ftype, contents, subsetter, records, n_lines>>
    /\ UNCHANGED notRead

NextRead ==
    \/ D_Read
    \/ D_ReadIndexError
    \/ D_Write

SpecRead == InitRead /\ [][NextRead]_vars

(***************************************************************************)
(* SpecCatalog: one run of either driver from the catalog branch of its    *)
(* TIDE_MODEL to the prediction calls.  The catalog binds the locals of    *)
(* the descriptor, the extraction branch of the storage format reads them  *)
(* and sets deltat, and the prediction services get the constituents.      *)
(***************************************************************************)

\* os.path.join(model_directory, f) of one file of an ordered file list, the
\* basename split at its first dot
File(dir, name, ext) == [dir |-> dir, name |-> name, ext |-> ext]

\* the if/elif chain of compute_tides_ICESat2: the locals the branch of
\* TIDE_MODEL binds
ATL11_Catalog(m) ==
    CASE m = "CATS0201" ->
           [model_format |-> "OTIS",
            grid_file |-> "tide_dir/cats0201_tmd/grid_CATS",
            model_file |-> "tide_dir/cats0201_tmd/h0_CATS02_01",
            EPSG |-> "4326",
            TYPE |-> "z",
            reference |-> "https://mail.esr.org/polar_tide_models/Model_CATS0201.html"]
      [] m = "CATS2008" ->
           [model_format |-> "OTIS",
            grid_file |-> "tide_dir/CATS2008/grid_CATS2008",
            model_file |-> "tide_dir/CATS2008/hf.CATS2008.out",
            EPSG |-> "CATS2008",
            TYPE |-> "z",
            reference |-> "https://www.esr.org/research/polar-tide-models/list-of-polar-tide-models/cats2008/"]
      [] m = "CATS2008_load" ->
           [model_format |-> "OTIS",
            grid_file |-> "tide_dir/CATS2008a_SPOTL_Load/grid_CATS2008a_opt",
            model_file |-> "tide_dir/CATS2008a_SPOTL_Load/h_CATS2008a_SPOTL_load",
            EPSG |-> "CATS2008",
            TYPE |-> "z",
            reference |-> "https://www.esr.org/research/polar-tide-models/list-of-polar-tide-models/cats2008/"]
      [] m = "TPXO9-atlas" ->
           [model_format |-> "netcdf",
            grid_file |-> "tide_dir/TPXO9_atlas/grid_tpxo9_atlas.nc.gz",
            model_file |-> <<
                              File("tide_dir/TPXO9_atlas", "h_q1_tpxo9_atlas_30", ".nc.gz"),
                              File("tide_dir/TPXO9_atlas", "h_o1_tpxo9_atlas_30", ".nc.gz"),
                              File("tide_dir/TPXO9_atlas", "h_p1_tpxo9_atlas_30", ".nc.gz"),
                              File("tide_dir/TPXO9_atlas", "h_k1_tpxo9_atlas_30", ".nc.gz"),
                              File("tide_dir/TPXO9_atlas", "h_n2_tpxo9_atlas_30", ".nc.gz"),
                              File("tide_dir/TPXO9_atlas", "h_m2_tpxo9_atlas_30", ".nc.gz"),
                              File("tide_dir/TPXO9_atlas", "h_s2_tpxo9_atlas_30", ".nc.gz"),
                              File("tide_dir/TPXO9_atlas", "h_k2_tpxo9_atlas_30", ".nc.gz"),
                              File("tide_dir/TPXO9_atlas", "h_m4_tpxo9_atlas_30", ".nc.gz"),
                              File("tide_dir/TPXO9_atlas", "h_ms4_tpxo9_atlas_30", ".nc.gz"),
                              File("tide_dir/TPXO9_atlas", "h_mn4_tpxo9_atlas_30", ".nc.gz"),
                              File("tide_dir/TPXO9_atlas", "h_2n2_tpxo9_atlas_30", ".nc.gz") >>,
            TYPE |-> "z",
            SCALE |-> <<1, 1000>>,
            GZIP |-> TRUE,
            reference |-> "http://volkov.oce.orst.edu/tides/tpxo9_atlas.html"]
      [] m = "TPXO9-atlas-v2" ->
           [model_format |-> "netcdf",
            grid_file |-> "tide_dir/TPXO9_atlas_v2/grid_tpxo9_atlas_30_v2.nc.gz",
            model_file |-> <<
                              File("tide_dir/TPXO9_atlas_v2", "h_q1_tpxo9_atlas_30_v2", ".nc.gz"),
                              File("tide_dir/TPXO9_atlas_v2", "h_o1_tpxo9_atlas_30_v2", ".nc.gz"),
                              File("tide_dir/TPXO9_atlas_v2", "h_p1_tpxo9_atlas_30_v2", ".nc.gz"),
                              File("tide_dir/TPXO9_atlas_v2", "h_k1_tpxo9_atlas_30_v2", ".nc.gz"),
                              File("tide_dir/TPXO9_atlas_v2", "h_n2_tpxo9_atlas_30_v2", ".nc.gz"),
                              File("tide_dir/TPXO9_atlas_v2", "h_m2_tpxo9_atlas_30_v2", ".nc.gz"),
                              File("tide_dir/TPXO9_atlas_v2", "h_s2_tpxo9_atlas_30_v2", ".nc.gz"),
                              File("tide_dir/TPXO9_atlas_v2", "h_k2_tpxo9_atlas_30_v2", ".nc.gz"),
                              File("tide_dir/TPXO9_atlas_v2", "h_m4_tpxo9_atlas_30_v2", ".nc.gz"),
                              File("tide_dir/TPXO9_atlas_v2", "h_ms4_tpxo9_atlas_30_v2", ".nc.gz"),
                              File("tide_dir/TPXO9_atlas_v2", "h_mn4_tpxo9_atlas_30_v2", ".nc.gz"),
                              File("tide_dir/TPXO9_atlas_v2", "h_2n2_tpxo9_atlas_30_v2", ".nc.gz") >>,
            TYPE |-> "z",
            SCALE |-> <<1, 1000>>,
            GZIP |-> TRUE,
            reference |-> "https://www.tpxo.net/global/tpxo9-atlas"]
      [] m = "TPXO9-atlas-v3" ->
           [model_format |-> "netcdf",
            grid_file |-> "tide_dir/TPXO9_atlas_v3/grid_tpxo9_atlas_30_v3.nc.gz",
            model_file |-> <<
                              File("tide_dir/TPXO9_atlas_v3", "h_q1_tpxo9_atlas_30_v3", ".nc.gz"),
                              File("tide_dir/TPXO9_atlas_v3", "h_o1_tpxo9_atlas_30_v3", ".nc.gz"),
                              File("tide_dir/TPXO9_atlas_v3", "h_p1_tpxo9_atlas_30_v3", ".nc.gz"),
                              File("tide_dir/TPXO9_atlas_v3", "h_k1_tpxo9_atlas_30_v3", ".nc.gz"),
                              File("tide_dir/TPXO9_atlas_v3", "h_n2_tpxo9_atlas_30_v3", ".nc.gz"),
                              File("tide_dir/TPXO9_atlas_v3", "h_m2_tpxo9_atlas_30_v3", ".nc.gz"),
                              File("tide_dir/TPXO9_atlas_v3", "h_s2_tpxo9_atlas_30_v3", ".nc.gz"),
                              File("tide_dir/TPXO9_atlas_v3", "h_k2_tpxo9_atlas_30_v3", ".nc.gz"),
                              File("tide_dir/TPXO9_atlas_v3", "h_m4_tpxo9_atlas_30_v3", ".nc.gz"),
                              File("tide_dir/TPXO9_atlas_v3", "h_ms4_tpxo9_atlas_30_v3", ".nc.gz"),
                              File("tide_dir/TPXO9_atlas_v3", "h_mn4_tpxo9_atlas_30_v3", ".nc.gz"),
                              File("tide_dir/TPXO9_atlas_v3", "h_2n2_tpxo9_atlas_30_v3", ".nc.gz"),
                              File("tide_dir/TPXO9_atlas_v3", "h_mf_tpxo9_atlas_30_v3", ".nc.gz"),
                              File("tide_dir/TPXO9_atlas_v3", "h_mm_tpxo9_atlas_30_v3", ".nc.gz") >>,
            TYPE |-> "z",
            SCALE |-> <<1, 1000>>,
            GZIP |-> TRUE,
            reference |-> "https://www.tpxo.net/global/tpxo9-atlas"]
      [] m = "TPXO9-atlas-v4" ->
           [model_format |-> "OTIS",
            grid_file |-> "tide_dir/TPXO9_atlas_v4/grid_tpxo9_atlas_30_v4",
            model_file |-> <<
                              File("tide_dir/TPXO9_atlas_v4", "h_q1_tpxo9_atlas_30_v4", ""),
                              File("tide_dir/TPXO9_atlas_v4", "h_o1_tpxo9_atlas_30_v4", ""),
                              File("tide_dir/TPXO9_atlas_v4", "h_p1_tpxo9_atlas_30_v4", ""),
                              File("tide_dir/TPXO9_atlas_v4", "h_k1_tpxo9_atlas_30_v4", ""),
                              File("tide_dir/TPXO9_atlas_v4", "h_n2_tpxo9_atlas_30_v4", ""),
                              File("tide_dir/TPXO9_atlas_v4", "h_m2_tpxo9_atlas_30_v4", ""),
                              File("tide_dir/TPXO9_atlas_v4", "h_s2_tpxo9_atlas_30_v4", ""),
                              File("tide_dir/TPXO9_atlas_v4", "h_k2_tpxo9_atlas_30_v4", ""),
                              File("tide_dir/TPXO9_atlas_v4", "h_m4_tpxo9_atlas_30_v4", ""),
                              File("tide_dir/TPXO9_atlas_v4", "h_ms4_tpxo9_atlas_30_v4", ""),
                              File("tide_dir/TPXO9_atlas_v4", "h_mn4_tpxo9_atlas_30_v4", ""),
                              File("tide_dir/TPXO9_atlas_v4", "h_2n2_tpxo9_atlas_30_v4", ""),
                              File("tide_dir/TPXO9_atlas_v4", "h_mf_tpxo9_atlas_30_v4", ""),
                              File("tide_dir/TPXO9_atlas_v4", "h_mm_tpxo9_atlas_30_v4", "") >>,
            EPSG |-> "4326",
            TYPE |-> "z",
            reference |-> "https://www.tpxo.net/global/tpxo9-atlas"]
      [] m = "TPXO9.1" ->
           [model_format |-> "OTIS",
            grid_file |-> "tide_dir/TPXO9.1/DATA/grid_tpxo9",
            model_file |-> "tide_dir/TPXO9.1/DATA/h_tpxo9.v1",
            EPSG |-> "4326",
            TYPE |-> "z",
            reference |-> "http://volkov.oce.orst.edu/tides/global.html"]
      [] m = "TPXO8-atlas" ->
           [model_format |-> "ATLAS",
            grid_file |-> "tide_dir/tpxo8_atlas/grid_tpxo8atlas_30_v1",
            model_file |-> "tide_dir/tpxo8_atlas/hf.tpxo8_atlas_30_v1",
            EPSG |-> "4326",
            TYPE |-> "z",
            reference |-> "http://volkov.oce.orst.edu/tides/tpxo8_atlas.html"]
      [] m = "TPXO7.2" ->
           [model_format |-> "OTIS",
            grid_file |-> "tide_dir/TPXO7.2_tmd/grid_tpxo7.2",
            model_file |-> "tide_dir/TPXO7.2_tmd/h_tpxo7.2",
            EPSG |-> "4326",
            TYPE |-> "z",
            reference |-> "http://volkov.oce.orst.edu/tides/global.html"]
      [] m = "TPXO7.2_load" ->
           [model_format |-> "OTIS",
            grid_file |-> "tide_dir/TPXO7.2_load/grid_tpxo6.2",
            model_file |-> "tide_dir/TPXO7.2_load/h_tpxo7.2_load",
            EPSG |-> "4326",
            TYPE |-> "z",
            reference |-> "http://volkov.oce.orst.edu/tides/global.html"]
      [] m = "AODTM-5" ->
           [model_format |-> "OTIS",
            grid_file |-> "tide_dir/aodtm5_tmd/grid_Arc5km",
            model_file |-> "tide_dir/aodtm5_tmd/h0_Arc5km.oce",
            EPSG |-> "PSNorth",
            TYPE |-> "z",
            reference |-> "https://www.esr.org/research/polar-tide-models/list-of-polar-tide-models/aodtm-5/"]
      [] m = "AOTIM-5" ->
           [model_format |-> "OTIS",
            grid_file |-> "tide_dir/aotim5_tmd/grid_Arc5km",
            model_file |-> "tide_dir/aotim5_tmd/h_Arc5km.oce",
            EPSG |-> "PSNorth",
            TYPE |-> "z",
            reference |-> "https://www.esr.org/research/polar-tide-models/list-of-polar-tide-models/aotim-5/"]
      [] m = "AOTIM-5-2018" ->
           [model_format |-> "OTIS",
            grid_file |-> "tide_dir/Arc5km2018/grid_Arc5km2018",
            model_file |-> "tide_dir/Arc5km2018/h_Arc5km2018",
            EPSG |-> "PSNorth",
            TYPE |-> "z",
            reference |-> "https://www.esr.org/research/polar-tide-models/list-of-polar-tide-models/aotim-5/"]
      [] m = "Gr1km-v2" ->
           [model_format |-> "OTIS",
            grid_file |-> "tide_dir/greenlandTMD_v2/grid_Greenland8.v2",
            model_file |-> "tide_dir/greenlandTMD_v2/h_Greenland8.v2",
            EPSG |-> "3413",
            TYPE |-> "z",
            reference |-> "https://doi.org/10.1002/2016RG000546"]
      [] m = "GOT4.7" ->
           [model_format |-> "GOT",
            model_file |-> <<
                              File("tide_dir/GOT4.7/grids_oceantide", "q1", ".d.gz"),
                              File("tide_dir/GOT4.7/grids_oceantide", "o1", ".d.gz"),
                              File("tide_dir/GOT4.7/grids_oceantide", "p1", ".d.gz"),
                              File("tide_dir/GOT4.7/grids_oceantide", "k1", ".d.gz"),
                              File("tide_dir/GOT4.7/grids_oceantide", "n2", ".d.gz"),
                              File("tide_dir/GOT4.7/grids_oceantide", "m2", ".d.gz"),
                              File("tide_dir/GOT4.7/grids_oceantide", "s2", ".d.gz"),
                              File("tide_dir/GOT4.7/grids_oceantide", "k2", ".d.gz"),
                              File("tide_dir/GOT4.7/grids_oceantide", "s1", ".d.gz"),
                              File("tide_dir/GOT4.7/grids_oceantide", "m4", ".d.gz") >>,
            SCALE |-> <<1, 100>>,
            GZIP |-> TRUE,
            reference |-> "https://denali.gsfc.nasa.gov/personal_pages/ray/MiscPubs/19990089548_1999150788.pdf"]
      [] m = "GOT4.7_load" ->
           [model_format |-> "GOT",
            model_file |-> <<
                              File("tide_dir/GOT4.7/grids_loadtide", "q1load", ".d.gz"),
                              File("tide_dir/GOT4.7/grids_loadtide", "o1load", ".d.gz"),
                              File("tide_dir/GOT4.7/grids_loadtide", "p1load", ".d.gz"),
                              File("tide_dir/GOT4.7/grids_loadtide", "k1load", ".d.gz"),
                              File("tide_dir/GOT4.7/grids_loadtide", "n2load", ".d.gz"),
                              File("tide_dir/GOT4.7/grids_loadtide", "m2load", ".d.gz"),
                              File("tide_dir/GOT4.7/grids_loadtide", "s2load", ".d.gz"),
                              File("tide_dir/GOT4.7/grids_loadtide", "k2load", ".d.gz"),
                              File("tide_dir/GOT4.7/grids_loadtide", "s1load", ".d.gz"),
                              File("tide_dir/GOT4.7/grids_loadtide", "m4load", ".d.gz") >>,
            SCALE |-> <<1, 1000>>,
            GZIP |-> TRUE,
            reference |-> "https://denali.gsfc.nasa.gov/personal_pages/ray/MiscPubs/19990089548_1999150788.pdf"]
      [] m = "GOT4.8" ->
           [model_format |-> "GOT",
            model_file |-> <<
                              File("tide_dir/got4.8/grids_oceantide", "q1", ".d.gz"),
                              File("tide_dir/got4.8/grids_oceantide", "o1", ".d.gz"),
                              File("tide_dir/got4.8/grids_oceantide", "p1", ".d.gz"),
                              File("tide_dir/got4.8/grids_oceantide", "k1", ".d.gz"),
                              File("tide_dir/got4.8/grids_oceantide", "n2", ".d.gz"),
                              File("tide_dir/got4.8/grids_oceantide", "m2", ".d.gz"),
                              File("tide_dir/got4.8/grids_oceantide", "s2", ".d.gz"),
                              File("tide_dir/got4.8/grids_oceantide", "k2", ".d.gz"),
                              File("tide_dir/got4.8/grids_oceantide", "s1", ".d.gz"),
                              File("tide_dir/got4.8/grids_oceantide", "m4", ".d.gz") >>,
            SCALE |-> <<1, 100>>,
            GZIP |-> TRUE,
            reference |-> "https://denali.gsfc.nasa.gov/personal_pages/ray/MiscPubs/19990089548_1999150788.pdf"]
      [] m = "GOT4.8_load" ->
           [model_format |-> "GOT",
            model_file |-> <<
                              File("tide_dir/got4.8/grids_loadtide", "q1load", ".d.gz"),
                              File("tide_dir/got4.8/grids_loadtide", "o1load", ".d.gz"),
                              File("tide_dir/got4.8/grids_loadtide", "p1load", ".d.gz"),
                              File("tide_dir/got4.8/grids_loadtide", "k1load", ".d.gz"),
                              File("tide_dir/got4.8/grids_loadtide", "n2load", ".d.gz"),
                              File("tide_dir/got4.8/grids_loadtide", "m2load", ".d.gz"),
                              File("tide_dir/got4.8/grids_loadtide", "s2load", ".d.gz"),
                              File("tide_dir/got4.8/grids_loadtide", "k2load", ".d.gz"),
                              File("tide_dir/got4.8/grids_loadtide", "s1load", ".d.gz"),
                              File("tide_dir/got4.8/grids_loadtide", "m4load", ".d.gz") >>,
            SCALE |-> <<1, 1000>>,
            GZIP |-> TRUE,
            reference |-> "https://denali.gsfc.nasa.gov/personal_pages/ray/MiscPubs/19990089548_1999150788.pdf"]
      [] m = "GOT4.10" ->
           [model_format |-> "GOT",
            model_file |-> <<
                              File("tide_dir/GOT4.10c/grids_oceantide", "q1", ".d.gz"),
                              File("tide_dir/GOT4.10c/grids_oceantide", "o1", ".d.gz"),
                              File("tide_dir/GOT4.10c/grids_oceantide", "p1", ".d.gz"),
                              File("tide_dir/GOT4.10c/grids_oceantide", "k1", ".d.gz"),
                              File("tide_dir/GOT4.10c/grids_oceantide", "n2", ".d.gz"),
                              File("tide_dir/GOT4.10c/grids_oceantide", "m2", ".d.gz"),
                              File("tide_dir/GOT4.10c/grids_oceantide", "s2", ".d.gz"),
                              File("tide_dir/GOT4.10c/grids_oceantide", "k2", ".d.gz"),
                              File("tide_dir/GOT4.10c/grids_oceantide", "s1", ".d.gz"),
                              File("tide_dir/GOT4.10c/grids_oceantide", "m4", ".d.gz") >>,
            SCALE |-> <<1, 100>>,
            GZIP |-> TRUE,
            reference |-> "https://denali.gsfc.nasa.gov/personal_pages/ray/MiscPubs/19990089548_1999150788.pdf"]
      [] m = "GOT4.10_load" ->
           [model_format |-> "GOT",
            model_file |-> <<
                              File("tide_dir/GOT4.10c/grids_loadtide", "q1load", ".d.gz"),
                              File("tide_dir/GOT4.10c/grids_loadtide", "o1load", ".d.gz"),
                              File("tide_dir/GOT4.10c/grids_loadtide", "p1load", ".d.gz"),
                              File("tide_dir/GOT4.10c/grids_loadtide", "k1load", ".d.gz"),
                              File("tide_dir/GOT4.10c/grids_loadtide", "n2load", ".d.gz"),
                              File("tide_dir/GOT4.10c/grids_loadtide", "m2load", ".d.gz"),
                              File("tide_dir/GOT4.10c/grids_loadtide", "s2load", ".d.gz"),
                              File("tide_dir/GOT4.10c/grids_loadtide", "k2load", ".d.gz"),
                              File("tide_dir/GOT4.10c/grids_loadtide", "s1load", ".d.gz"),
                              File("tide_dir/GOT4.10c/grids_loadtide", "m4load", ".d.gz") >>,
            SCALE |-> <<1, 1000>>,
            GZIP |-> TRUE,
            reference |-> "https://denali.gsfc.nasa.gov/personal_pages/ray/MiscPubs/19990089548_1999150788.pdf"]
      [] m = "FES2014" ->
           [model_format |-> "FES",
            model_file |-> <<
                              File("tide_dir/fes2014/ocean_tide", "2n2", ".nc.gz"),
                              File("tide_dir/fes2014/ocean_tide", "eps2", ".nc.gz"),
                              File("tide_dir/fes2014/ocean_tide", "j1", ".nc.gz"),
                              File("tide_dir/fes2014/ocean_tide", "k1", ".nc.gz"),
                              File("tide_dir/fes2014/ocean_tide", "k2", ".nc.gz"),
                              File("tide_dir/fes2014/ocean_tide", "l2", ".nc.gz"),
                              File("tide_dir/fes2014/ocean_tide", "la2", ".nc.gz"),
                              File("tide_dir/fes2014/ocean_tide", "m2", ".nc.gz"),
                              File("tide_dir/fes2014/ocean_tide", "m3", ".nc.gz"),
                              File("tide_dir/fes2014/ocean_tide", "m4", ".nc.gz"),
                              File("tide_dir/fes2014/ocean_tide", "m6", ".nc.gz"),
                              File("tide_dir/fes2014/ocean_tide", "m8", ".nc.gz"),
                              File("tide_dir/fes2014/ocean_tide", "mf", ".nc.gz"),
                              File("tide_dir/fes2014/ocean_tide", "mks2", ".nc.gz"),
                              File("tide_dir/fes2014/ocean_tide", "mm", ".nc.gz"),
                              File("tide_dir/fes2014/ocean_tide", "mn4", ".nc.gz"),
                              File("tide_dir/fes2014/ocean_tide", "ms4", ".nc.gz"),
                              File("tide_dir/fes2014/ocean_tide", "msf", ".nc.gz"),
                              File("tide_dir/fes2014/ocean_tide", "msqm", ".nc.gz"),
                              File("tide_dir/fes2014/ocean_tide", "mtm", ".nc.gz"),
                              File("tide_dir/fes2014/ocean_tide", "mu2", ".nc.gz"),
                              File("tide_dir/fes2014/ocean_tide", "n2", ".nc.gz"),
                              File("tide_dir/fes2014/ocean_tide", "n4", ".nc.gz"),
                              File("tide_dir/fes2014/ocean_tide", "nu2", ".nc.gz"),
                              File("tide_dir/fes2014/ocean_tide", "o1", ".nc.gz"),
                              File("tide_dir/fes2014/ocean_tide", "p1", ".nc.gz"),
                              File("tide_dir/fes2014/ocean_tide", "q1", ".nc.gz"),
                              File("tide_dir/fes2014/ocean_tide", "r2", ".nc.gz"),
                              File("tide_dir/fes2014/ocean_tide", "s1", ".nc.gz"),
                              File("tide_dir/fes2014/ocean_tide", "s2", ".nc.gz"),
                              File("tide_dir/fes2014/ocean_tide", "s4", ".nc.gz"),
                              File("tide_dir/fes2014/ocean_tide", "sa", ".nc.gz"),
                              File("tide_dir/fes2014/ocean_tide", "ssa", ".nc.gz"),
                              File("tide_dir/fes2014/ocean_tide", "t2", ".nc.gz") >>,
            TYPE |-> "z",
            SCALE |-> <<1, 100>>,
            GZIP |-> TRUE,
            reference |-> "https://www.aviso.altimetry.fr/en/data/productsauxiliary-products/global-tide-fes.html",
            c |-> << "2n2", "eps2", "j1", "k1", "k2", "l2", "lambda2", "m2",
                     "m3", "m4", "m6", "m8", "mf", "mks2", "mm", "mn4",
                     "ms4", "msf", "msqm", "mtm", "mu2", "n2", "n4", "nu2",
                     "o1", "p1", "q1", "r2", "s1", "s2", "s4", "sa", "ssa",
                     "t2" >>]
      [] m = "FES2014_load" ->
           [model_format |-> "FES",
            model_file |-> <<
                              File("tide_dir/fes2014/load_tide", "2n2", ".nc.gz"),
                              File("tide_dir/fes2014/load_tide", "eps2", ".nc.gz"),
                              File("tide_dir/fes2014/load_tide", "j1", ".nc.gz"),
                              File("tide_dir/fes2014/load_tide", "k1", ".nc.gz"),
                              File("tide_dir/fes2014/load_tide", "k2", ".nc.gz"),
                              File("tide_dir/fes2014/load_tide", "l2", ".nc.gz"),
                              File("tide_dir/fes2014/load_tide", "la2", ".nc.gz"),
                              File("tide_dir/fes2014/load_tide", "m2", ".nc.gz"),
                              File("tide_dir/fes2014/load_tide", "m3", ".nc.gz"),
                              File("tide_dir/fes2014/load_tide", "m4", ".nc.gz"),
                              File("tide_dir/fes2014/load_tide", "m6", ".nc.gz"),
                              File("tide_dir/fes2014/load_tide", "m8", ".nc.gz"),
                              File("tide_dir/fes2014/load_tide", "mf", ".nc.gz"),
                              File("tide_dir/fes2014/load_tide", "mks2", ".nc.gz"),
                              File("tide_dir/fes2014/load_tide", "mm", ".nc.gz"),
                              File("tide_dir/fes2014/load_tide", "mn4", ".nc.gz"),
                              File("tide_dir/fes2014/load_tide", "ms4", ".nc.gz"),
                              File("tide_dir/fes2014/load_tide", "msf", ".nc.gz"),
                              File("tide_dir/fes2014/load_tide", "msqm", ".nc.gz"),
                              File("tide_dir/fes2014/load_tide", "mtm", ".nc.gz"),
                              File("tide_dir/fes2014/load_tide", "mu2", ".nc.gz"),
                              File("tide_dir/fes2014/load_tide", "n2", ".nc.gz"),
                              File("tide_dir/fes2014/load_tide", "n4", ".nc.gz"),
                              File("tide_dir/fes2014/load_tide", "nu2", ".nc.gz"),
                              File("tide_dir/fes2014/load_tide", "o1", ".nc.gz"),
                              File("tide_dir/fes2014/load_tide", "p1", ".nc.gz"),
                              File("tide_dir/fes2014/load_tide", "q1", ".nc.gz"),
                              File("tide_dir/fes2014/load_tide", "r2", ".nc.gz"),
                              File("tide_dir/fes2014/load_tide", "s1", ".nc.gz"),
                              File("tide_dir/fes2014/load_tide", "s2", ".nc.gz"),
                              File("tide_dir/fes2014/load_tide", "s4", ".nc.gz"),
                              File("tide_dir/fes2014/load_tide", "sa", ".nc.gz"),
                              File("tide_dir/fes2014/load_tide", "ssa", ".nc.gz"),
                              File("tide_dir/fes2014/load_tide", "t2", ".nc.gz") >>,
            TYPE |-> "z",
            SCALE |-> <<1, 100>>,
            GZIP |-> TRUE,
            reference |-> "https://www.aviso.altimetry.fr/en/data/productsauxiliary-products/global-tide-fes.html",
            c |-> << "2n2", "eps2", "j1", "k1", "k2", "l2", "lambda2", "m2",
                     "m3", "m4", "m6", "m8", "mf", "mks2", "mm", "mn4",
                     "ms4", "msf", "msqm", "mtm", "mu2", "n2", "n4", "nu2",
                     "o1", "p1", "q1", "r2", "s1", "s2", "s4", "sa", "ssa",
                     "t2" >>]

\* the if/elif chain of compute_tides_icebridge_data: the locals the branch
\* of TIDE_MODEL binds
OIB_Catalog(m) ==
    CASE m = "CATS0201" ->
           [model_format |-> "OTIS",
            grid_file |-> "tide_dir/cats0201_tmd/grid_CATS",
            model_file |-> "tide_dir/cats0201_tmd/h0_CATS02_01",
            EPSG |-> "4326",
            TYPE |-> "z",
            reference |-> "https://mail.esr.org/polar_tide_models/Model_CATS0201.html"]
      [] m = "CATS2008" ->
           [model_format |-> "OTIS",
            grid_file |-> "tide_dir/CATS2008/grid_CATS2008",
            model_file |-> "tide_dir/CATS2008/hf.CATS2008.out",
            EPSG |-> "CATS2008",
            TYPE |-> "z",
            reference |-> "https://www.esr.org/research/polar-tide-models/list-of-polar-tide-models/cats2008/"]
      [] m = "CATS2008_load" ->
           [model_format |-> "OTIS",
            grid_file |-> "tide_dir/CATS2008a_SPOTL_Load/grid_CATS2008a_opt",
            model_file |-> "tide_dir/CATS2008a_SPOTL_Load/h_CATS2008a_SPOTL_load",
            EPSG |-> "CATS2008",
            TYPE |-> "z",
            reference |-> "https://www.esr.org/research/polar-tide-models/list-of-polar-tide-models/cats2008/"]
      [] m = "TPXO9-atlas" ->
           [model_format |-> "netcdf",
            grid_file |-> "tide_dir/TPXO9_atlas/grid_tpxo9_atlas.nc.gz",
            model_file |-> <<
                              File("tide_dir/TPXO9_atlas", "h_q1_tpxo9_atlas_30", ".nc.gz"),
                              File("tide_dir/TPXO9_atlas", "h_o1_tpxo9_atlas_30", ".nc.gz"),
                              File("tide_dir/TPXO9_atlas", "h_p1_tpxo9_atlas_30", ".nc.gz"),
                              File("tide_dir/TPXO9_atlas", "h_k1_tpxo9_atlas_30", ".nc.gz"),
                              File("tide_dir/TPXO9_atlas", "h_n2_tpxo9_atlas_30", ".nc.gz"),
                              File("tide_dir/TPXO9_atlas", "h_m2_tpxo9_atlas_30", ".nc.gz"),
                              File("tide_dir/TPXO9_atlas", "h_s2_tpxo9_atlas_30", ".nc.gz"),
                              File("tide_dir/TPXO9_atlas", "h_k2_tpxo9_atlas_30", ".nc.gz"),
                              File("tide_dir/TPXO9_atlas", "h_m4_tpxo9_atlas_30", ".nc.gz"),
                              File("tide_dir/TPXO9_atlas", "h_ms4_tpxo9_atlas_30", ".nc.gz"),
                              File("tide_dir/TPXO9_atlas", "h_mn4_tpxo9_atlas_30", ".nc.gz"),
                              File("tide_dir/TPXO9_atlas", "h_2n2_tpxo9_atlas_30", ".nc.gz") >>,
            TYPE |-> "z",
            SCALE |-> <<1, 1000>>,
            GZIP |-> TRUE,
            reference |-> "http://volkov.oce.orst.edu/tides/tpxo9_atlas.html"]
      [] m = "TPXO9-atlas-v2" ->
           [model_format |-> "netcdf",
            grid_file |-> "tide_dir/TPXO9_atlas_v2/grid_tpxo9_atlas_30_v2.nc.gz",
            model_file |-> <<
                              File("tide_dir/TPXO9_atlas_v2", "h_q1_tpxo9_atlas_30_v2", ".nc.gz"),
                              File("tide_dir/TPXO9_atlas_v2", "h_o1_tpxo9_atlas_30_v2", ".nc.gz"),
                              File("tide_dir/TPXO9_atlas_v2", "h_p1_tpxo9_atlas_30_v2", ".nc.gz"),
                              File("tide_dir/TPXO9_atlas_v2", "h_k1_tpxo9_atlas_30_v2", ".nc.gz"),
                              File("tide_dir/TPXO9_atlas_v2", "h_n2_tpxo9_atlas_30_v2", ".nc.gz"),
                              File("tide_dir/TPXO9_atlas_v2", "h_m2_tpxo9_atlas_30_v2", ".nc.gz"),
                              File("tide_dir/TPXO9_atlas_v2", "h_s2_tpxo9_atlas_30_v2", ".nc.gz"),
                              File("tide_dir/TPXO9_atlas_v2", "h_k2_tpxo9_atlas_30_v2", ".nc.gz"),
                              File("tide_dir/TPXO9_atlas_v2", "h_m4_tpxo9_atlas_30_v2", ".nc.gz"),
                              File("tide_dir/TPXO9_atlas_v2", "h_ms4_tpxo9_atlas_30_v2", ".nc.gz"),
                              File("tide_dir/TPXO9_atlas_v2", "h_mn4_tpxo9_atlas_30_v2", ".nc.gz"),
                              File("tide_dir/TPXO9_atlas_v2", "h_2n2_tpxo9_atlas_30_v2", ".nc.gz") >>,
            TYPE |-> "z",
            SCALE |-> <<1, 1000>>,
            GZIP |-> TRUE,
            reference |-> "https://www.tpxo.net/global/tpxo9-atlas"]
      [] m = "TPXO9-atlas-v3" ->
           [model_format |-> "netcdf",
            grid_file |-> "tide_dir/TPXO9_atlas_v3/grid_tpxo9_atlas_30_v3.nc.gz",
            model_file |-> <<
                              File("tide_dir/TPXO9_atlas_v3", "h_q1_tpxo9_atlas_30_v3", ".nc.gz"),
                              File("tide_dir/TPXO9_atlas_v3", "h_o1_tpxo9_atlas_30_v3", ".nc.gz"),
                              File("tide_dir/TPXO9_atlas_v3", "h_p1_tpxo9_atlas_30_v3", ".nc.gz"),
                              File("tide_dir/TPXO9_atlas_v3", "h_k1_tpxo9_atlas_30_v3", ".nc.gz"),
                              File("tide_dir/TPXO9_atlas_v3", "h_n2_tpxo9_atlas_30_v3", ".nc.gz"),
                              File("tide_dir/TPXO9_atlas_v3", "h_m2_tpxo9_atlas_30_v3", ".nc.gz"),
                              File("tide_dir/TPXO9_atlas_v3", "h_s2_tpxo9_atlas_30_v3", ".nc.gz"),
                              File("tide_dir/TPXO9_atlas_v3", "h_k2_tpxo9_atlas_30_v3", ".nc.gz"),
                              File("tide_dir/TPXO9_atlas_v3", "h_m4_tpxo9_atlas_30_v3", ".nc.gz"),
                              File("tide_dir/TPXO9_atlas_v3", "h_ms4_tpxo9_atlas_30_v3", ".nc.gz"),
                              File("tide_dir/TPXO9_atlas_v3", "h_mn4_tpxo9_atlas_30_v3", ".nc.gz"),
                              File("tide_dir/TPXO9_atlas_v3", "h_2n2_tpxo9_atlas_30_v3", ".nc.gz"),
                              File("tide_dir/TPXO9_atlas_v3", "h_mf_tpxo9_atlas_30_v3", ".nc.gz"),
                              File("tide_dir/TPXO9_atlas_v3", "h_mm_tpxo9_atlas_30_v3", ".nc.gz") >>,
            TYPE |-> "z",
            SCALE |-> <<1, 1000>>,
            GZIP |-> TRUE,
            reference |-> "https://www.tpxo.net/global/tpxo9-atlas"]
      [] m = "TPXO9-atlas-v4" ->
           [model_format |-> "OTIS",
            grid_file |-> "tide_dir/TPXO9_atlas_v4/grid_tpxo9_atlas_30_v4",
            model_file |-> <<
                              File("tide_dir/TPXO9_atlas_v4", "h_q1_tpxo9_atlas_30_v4", ""),
                              File("tide_dir/TPXO9_atlas_v4", "h_o1_tpxo9_atlas_30_v4", ""),
                              File("tide_dir/TPXO9_atlas_v4", "h_p1_tpxo9_atlas_30_v4", ""),
                              File("tide_dir/TPXO9_atlas_v4", "h_k1_tpxo9_atlas_30_v4", ""),
                              File("tide_dir/TPXO9_atlas_v4", "h_n2_tpxo9_atlas_30_v4", ""),
                              File("tide_dir/TPXO9_atlas_v4", "h_m2_tpxo9_atlas_30_v4", ""),
                              File("tide_dir/TPXO9_atlas_v4", "h_s2_tpxo9_atlas_30_v4", ""),
                              File("tide_dir/TPXO9_atlas_v4", "h_k2_tpxo9_atlas_30_v4", ""),
                              File("tide_dir/TPXO9_atlas_v4", "h_m4_tpxo9_atlas_30_v4", ""),
                              File("tide_dir/TPXO9_atlas_v4", "h_ms4_tpxo9_atlas_30_v4", ""),
                              File("tide_dir/TPXO9_atlas_v4", "h_mn4_tpxo9_atlas_30_v4", ""),
                              File("tide_dir/TPXO9_atlas_v4", "h_2n2_tpxo9_atlas_30_v4", ""),
                              File("tide_dir/TPXO9_atlas_v4", "h_mf_tpxo9_atlas_30_v4", ""),
                              File("tide_dir/TPXO9_atlas_v4", "h_mm_tpxo9_atlas_30_v4", "") >>,
            EPSG |-> "4326",
            TYPE |-> "z",
            reference |-> "https://www.tpxo.net/global/tpxo9-atlas"]
      [] m = "TPXO9.1" ->
           [model_format |-> "OTIS",
            grid_file |-> "tide_dir/TPXO9.1/DATA/grid_tpxo9",
            model_file |-> "tide_dir/TPXO9.1/DATA/h_tpxo9.v1",
            EPSG |-> "4326",
            TYPE |-> "z",
            reference |-> "http://volkov.oce.orst.edu/tides/global.html"]
      [] m = "TPXO8-atlas" ->
           [model_format |-> "ATLAS",
            grid_file |-> "tide_dir/tpxo8_atlas/grid_tpxo8atlas_30_v1",
            model_file |-> "tide_dir/tpxo8_atlas/hf.tpxo8_atlas_30_v1",
            EPSG |-> "4326",
            TYPE |-> "z",
            reference |-> "http://volkov.oce.orst.edu/tides/tpxo8_atlas.html"]
      [] m = "TPXO7.2" ->
           [model_format |-> "OTIS",
            grid_file |-> "tide_dir/TPXO7.2_tmd/grid_tpxo7.2",
            model_file |-> "tide_dir/TPXO7.2_tmd/h_tpxo7.2",
            EPSG |-> "4326",
            TYPE |-> "z",
            reference |-> "http://volkov.oce.orst.edu/tides/global.html"]
      [] m = "TPXO7.2_load" ->
           [model_format |-> "OTIS",
            grid_file |-> "tide_dir/TPXO7.2_load/grid_tpxo6.2",
            model_file |-> "tide_dir/TPXO7.2_load/h_tpxo7.2_load",
            EPSG |-> "4326",
            TYPE |-> "z",
            reference |-> "http://volkov.oce.orst.edu/tides/global.html"]
      [] m = "AODTM-5" ->
           [model_format |-> "OTIS",
            grid_file |-> "tide_dir/aodtm5_tmd/grid_Arc5km",
            model_file |-> "tide_dir/aodtm5_tmd/h0_Arc5km.oce",
            EPSG |-> "PSNorth",
            TYPE |-> "z",
            reference |-> "https://www.esr.org/research/polar-tide-models/list-of-polar-tide-models/aodtm-5/"]
      [] m = "AOTIM-5" ->
           [model_format |-> "OTIS",
            grid_file |-> "tide_dir/aotim5_tmd/grid_Arc5km",
            model_file |-> "tide_dir/aotim5_tmd/h_Arc5km.oce",
            EPSG |-> "PSNorth",
            TYPE |-> "z",
            reference |-> "https://www.esr.org/research/polar-tide-models/list-of-polar-tide-models/aotim-5/"]
      [] m = "AOTIM-5-2018" ->
           [model_format |-> "OTIS",
            grid_file |-> "tide_dir/Arc5km2018/grid_Arc5km2018",
            model_file |-> "tide_dir/Arc5km2018/h_Arc5km2018",
            EPSG |-> "PSNorth",
            TYPE |-> "z",
            reference |-> "https://www.esr.org/research/polar-tide-models/list-of-polar-tide-models/aotim-5/"]
      [] m = "Gr1km-v2" ->
           [model_format |-> "OTIS",
            grid_file |-> "tide_dir/greenlandTMD_v2/grid_Greenland8.v2",
            model_file |-> "tide_dir/greenlandTMD_v2/h_Greenland8.v2",
            EPSG |-> "3413",
            TYPE |-> "z",
            reference |-> "https://doi.org/10.1002/2016RG000546"]
      [] m = "GOT4.7" ->
           [model_format |-> "GOT",
            model_file |-> <<
                              File("tide_dir/GOT4.7/grids_oceantide", "q1", ".d.gz"),
                              File("tide_dir/GOT4.7/grids_oceantide", "o1", ".d.gz"),
                              File("tide_dir/GOT4.7/grids_oceantide", "p1", ".d.gz"),
                              File("tide_dir/GOT4.7/grids_oceantide", "k1", ".d.gz"),
                              File("tide_dir/GOT4.7/grids_oceantide", "n2", ".d.gz"),
                              File("tide_dir/GOT4.7/grids_oceantide", "m2", ".d.gz"),
                              File("tide_dir/GOT4.7/grids_oceantide", "s2", ".d.gz"),
                              File("tide_dir/GOT4.7/grids_oceantide", "k2", ".d.gz"),
                              File("tide_dir/GOT4.7/grids_oceantide", "s1", ".d.gz"),
                              File("tide_dir/GOT4.7/grids_oceantide", "m4", ".d.gz") >>,
            SCALE |-> <<1, 100>>,
            GZIP |-> TRUE,
            reference |-> "https://denali.gsfc.nasa.gov/personal_pages/ray/MiscPubs/19990089548_1999150788.pdf"]
      [] m = "GOT4.7_load" ->
           [model_format |-> "GOT",
            model_file |-> <<
                              File("tide_dir/GOT4.7/grids_loadtide", "q1load", ".d.gz"),
                              File("tide_dir/GOT4.7/grids_loadtide", "o1load", ".d.gz"),
                              File("tide_dir/GOT4.7/grids_loadtide", "p1load", ".d.gz"),
                              File("tide_dir/GOT4.7/grids_loadtide", "k1load", ".d.gz"),
                              File("tide_dir/GOT4.7/grids_loadtide", "n2load", ".d.gz"),
                              File("tide_dir/GOT4.7/grids_loadtide", "m2load", ".d.gz"),
                              File("tide_dir/GOT4.7/grids_loadtide", "s2load", ".d.gz"),
                              File("tide_dir/GOT4.7/grids_loadtide", "k2load", ".d.gz"),
                              File("tide_dir/GOT4.7/grids_loadtide", "s1load", ".d.gz"),
                              File("tide_dir/GOT4.7/grids_loadtide", "m4load", ".d.gz") >>,
            SCALE |-> <<1, 1000>>,
            GZIP |-> TRUE,
            reference |-> "https://denali.gsfc.nasa.gov/personal_pages/ray/MiscPubs/19990089548_1999150788.pdf"]
      [] m = "GOT4.8" ->
           [model_format |-> "GOT",
            model_file |-> <<
                              File("tide_dir/got4.8/grids_oceantide", "q1", ".d.gz"),
                              File("tide_dir/got4.8/grids_oceantide", "o1", ".d.gz"),
                              File("tide_dir/got4.8/grids_oceantide", "p1", ".d.gz"),
                              File("tide_dir/got4.8/grids_oceantide", "k1", ".d.gz"),
                              File("tide_dir/got4.8/grids_oceantide", "n2", ".d.gz"),
                              File("tide_dir/got4.8/grids_oceantide", "m2", ".d.gz"),
                              File("tide_dir/got4.8/grids_oceantide", "s2", ".d.gz"),
                              File("tide_dir/got4.8/grids_oceantide", "k2", ".d.gz"),
                              File("tide_dir/got4.8/grids_oceantide", "s1", ".d.gz"),
                              File("tide_dir/got4.8/grids_oceantide", "m4", ".d.gz") >>,
            SCALE |-> <<1, 100>>,
            GZIP |-> TRUE,
            reference |-> "https://denali.gsfc.nasa.gov/personal_pages/ray/MiscPubs/19990089548_1999150788.pdf"]
      [] m = "GOT4.8_load" ->
           [model_format |-> "GOT",
            model_file |-> <<
                              File("tide_dir/got4.8/grids_loadtide", "q1load", ".d.gz"),
                              File("tide_dir/got4.8/grids_loadtide", "o1load", ".d.gz"),
                              File("tide_dir/got4.8/grids_loadtide", "p1load", ".d.gz"),
                              File("tide_dir/got4.8/grids_loadtide", "k1load", ".d.gz"),
                              File("tide_dir/got4.8/grids_loadtide", "n2load", ".d.gz"),
                              File("tide_dir/got4.8/grids_loadtide", "m2load", ".d.gz"),
                              File("tide_dir/got4.8/grids_loadtide", "s2load", ".d.gz"),
                              File("tide_dir/got4.8/grids_loadtide", "k2load", ".d.gz"),
                              File("tide_dir/got4.8/grids_loadtide", "s1load", ".d.gz"),
                              File("tide_dir/got4.8/grids_loadtide", "m4load", ".d.gz") >>,
            SCALE |-> <<1, 1000>>,
            GZIP |-> TRUE,
            reference |-> "https://denali.gsfc.nasa.gov/personal_pages/ray/MiscPubs/19990089548_1999150788.pdf"]
      [] m = "GOT4.10" ->
           [model_format |-> "GOT",
            model_file |-> <<
                              File("tide_dir/GOT4.10c/grids_oceantide", "q1", ".d.gz"),
                              File("tide_dir/GOT4.10c/grids_oceantide", "o1", ".d.gz"),
                              File("tide_dir/GOT4.10c/grids_oceantide", "p1", ".d.gz"),
                              File("tide_dir/GOT4.10c/grids_oceantide", "k1", ".d.gz"),
                              File("tide_dir/GOT4.10c/grids_oceantide", "n2", ".d.gz"),
                              File("tide_dir/GOT4.10c/grids_oceantide", "m2", ".d.gz"),
                              File("tide_dir/GOT4.10c/grids_oceantide", "s2", ".d.gz"),
                              File("tide_dir/GOT4.10c/grids_oceantide", "k2", ".d.gz"),
                              File("tide_dir/GOT4.10c/grids_oceantide", "s1", ".d.gz"),
                              File("tide_dir/GOT4.10c/grids_oceantide", "m4", ".d.gz") >>,
            SCALE |-> <<1, 100>>,
            GZIP |-> TRUE,
            reference |-> "https://denali.gsfc.nasa.gov/personal_pages/ray/MiscPubs/19990089548_1999150788.pdf"]
      [] m = "GOT4.10_load" ->
           [model_format |-> "GOT",
            model_file |-> <<
                              File("tide_dir/GOT4.10c/grids_loadtide", "q1load", ".d.gz"),
                              File("tide_dir/GOT4.10c/grids_loadtide", "o1load", ".d.gz"),
                              File("tide_dir/GOT4.10c/grids_loadtide", "p1load", ".d.gz"),
                              File("tide_dir/GOT4.10c/grids_loadtide", "k1load", ".d.gz"),
                              File("tide_dir/GOT4.10c/grids_loadtide", "n2load", ".d.gz"),
                              File("tide_dir/GOT4.10c/grids_loadtide", "m2load", ".d.gz"),
                              File("tide_dir/GOT4.10c/grids_loadtide", "s2load", ".d.gz"),
                              File("tide_dir/GOT4.10c/grids_loadtide", "k2load", ".d.gz"),
                              File("tide_dir/GOT4.10c/grids_loadtide", "s1load", ".d.gz"),
                              File("tide_dir/GOT4.10c/grids_loadtide", "m4load", ".d.gz") >>,
            SCALE |-> <<1, 1000>>,
            GZIP |-> TRUE,
            reference |-> "https://denali.gsfc.nasa.gov/personal_pages/ray/MiscPubs/19990089548_1999150788.pdf"]
      [] m = "FES2014" ->
           [model_format |-> "FES",
            model_file |-> <<
                              File("tide_dir/fes2014/ocean_tide", "2n2", ".nc.gz"),
                              File("tide_dir/fes2014/ocean_tide", "eps2", ".nc.gz"),
                              File("tide_dir/fes2014/ocean_tide", "j1", ".nc.gz"),
                              File("tide_dir/fes2014/ocean_tide", "k1", ".nc.gz"),
                              File("tide_dir/fes2014/ocean_tide", "k2", ".nc.gz"),
                              File("tide_dir/fes2014/ocean_tide", "l2", ".nc.gz"),
                              File("tide_dir/fes2014/ocean_tide", "la2", ".nc.gz"),
                              File("tide_dir/fes2014/ocean_tide", "m2", ".nc.gz"),
                              File("tide_dir/fes2014/ocean_tide", "m3", ".nc.gz"),
                              File("tide_dir/fes2014/ocean_tide", "m4", ".nc.gz"),
                              File("tide_dir/fes2014/ocean_tide", "m6", ".nc.gz"),
                              File("tide_dir/fes2014/ocean_tide", "m8", ".nc.gz"),
                              File("tide_dir/fes2014/ocean_tide", "mf", ".nc.gz"),
                              File("tide_dir/fes2014/ocean_tide", "mks2", ".nc.gz"),
                              File("tide_dir/fes2014/ocean_tide", "mm", ".nc.gz"),
                              File("tide_dir/fes2014/ocean_tide", "mn4", ".nc.gz"),
                              File("tide_dir/fes2014/ocean_tide", "ms4", ".nc.gz"),
                              File("tide_dir/fes2014/ocean_tide", "msf", ".nc.gz"),
                              File("tide_dir/fes2014/ocean_tide", "msqm", ".nc.gz"),
                              File("tide_dir/fes2014/ocean_tide", "mtm", ".nc.gz"),
                              File("tide_dir/fes2014/ocean_tide", "mu2", ".nc.gz"),
                              File("tide_dir/fes2014/ocean_tide", "n2", ".nc.gz"),
                              File("tide_dir/fes2014/ocean_tide", "n4", ".nc.gz"),
                              File("tide_dir/fes2014/ocean_tide", "nu2", ".nc.gz"),
                              File("tide_dir/fes2014/ocean_tide", "o1", ".nc.gz"),
                              File("tide_dir/fes2014/ocean_tide", "p1", ".nc.gz"),
                              File("tide_dir/fes2014/ocean_tide", "q1", ".nc.gz"),
                              File("tide_dir/fes2014/ocean_tide", "r2", ".nc.gz"),
                              File("tide_dir/fes2014/ocean_tide", "s1", ".nc.gz"),
                              File("tide_dir/fes2014/ocean_tide", "s2", ".nc.gz"),
                              File("tide_dir/fes2014/ocean_tide", "s4", ".nc.gz"),
                              File("tide_dir/fes2014/ocean_tide", "sa", ".nc.gz"),
                              File("tide_dir/fes2014/ocean_tide", "ssa", ".nc.gz"),
                              File("tide_dir/fes2014/ocean_tide", "t2", ".nc.gz") >>,
            TYPE |-> "z",
            SCALE |-> <<1, 100>>,
            GZIP |-> TRUE,
            reference |-> "https://www.aviso.altimetry.fr/en/data/productsauxiliary-products/global-tide-fes.html",
            c |-> << "2n2", "eps2", "j1", "k1", "k2", "l2", "lambda2", "m2",
                     "m3", "m4", "m6", "m8", "mf", "mks2", "mm", "mn4",
                     "ms4", "msf", "msqm", "mtm", "mu2", "n2", "n4", "nu2",
                     "o1", "p1", "q1", "r2", "s1", "s2", "s4", "sa", "ssa",
                     "t2" >>]
      [] m = "FES2014_load" ->
           [model_format |-> "FES",
            model_file |-> <<
                              File("tide_dir/fes2014/load_tide", "2n2", ".nc.gz"),
                              File("tide_dir/fes2014/load_tide", "eps2", ".nc.gz"),
                              File("tide_dir/fes2014/load_tide", "j1", ".nc.gz"),
                              File("tide_dir/fes2014/load_tide", "k1", ".nc.gz"),
                              File("tide_dir/fes2014/load_tide", "k2", ".nc.gz"),
                              File("tide_dir/fes2014/load_tide", "l2", ".nc.gz"),
                              File("tide_dir/fes2014/load_tide", "la2", ".nc.gz"),
                              File("tide_dir/fes2014/load_tide", "m2", ".nc.gz"),
                              File("tide_dir/fes2014/load_tide", "m3", ".nc.gz"),
                              File("tide_dir/fes2014/load_tide", "m4", ".nc.gz"),
                              File("tide_dir/fes2014/load_tide", "m6", ".nc.gz"),
                              File("tide_dir/fes2014/load_tide", "m8", ".nc.gz"),
                              File("tide_dir/fes2014/load_tide", "mf", ".nc.gz"),
                              File("tide_dir/fes2014/load_tide", "mks2", ".nc.gz"),
                              File("tide_dir/fes2014/load_tide", "mm", ".nc.gz"),
                              File("tide_dir/fes2014/load_tide", "mn4", ".nc.gz"),
                              File("tide_dir/fes2014/load_tide", "ms4", ".nc.gz"),
                              File("tide_dir/fes2014/load_tide", "msf", ".nc.gz"),
                              File("tide_dir/fes2014/load_tide", "msqm", ".nc.gz"),
                              File("tide_dir/fes2014/load_tide", "mtm", ".nc.gz"),
                              File("tide_dir/fes2014/load_tide", "mu2", ".nc.gz"),
                              File("tide_dir/fes2014/load_tide", "n2", ".nc.gz"),
                              File("tide_dir/fes2014/load_tide", "n4", ".nc.gz"),
                              File("tide_dir/fes2014/load_tide", "nu2", ".nc.gz"),
                              File("tide_dir/fes2014/load_tide", "o1", ".nc.gz"),
                              File("tide_dir/fes2014/load_tide", "p1", ".nc.gz"),
                              File("tide_dir/fes2014/load_tide", "q1", ".nc.gz"),
                              File("tide_dir/fes2014/load_tide", "r2", ".nc.gz"),
                              File("tide_dir/fes2014/load_tide", "s1", ".nc.gz"),
                              File("tide_dir/fes2014/load_tide", "s2", ".nc.gz"),
                              File("tide_dir/fes2014/load_tide", "s4", ".nc.gz"),
                              File("tide_dir/fes2014/load_tide", "sa", ".nc.gz"),
                              File("tide_dir/fes2014/load_tide", "ssa", ".nc.gz"),
                              File("tide_dir/fes2014/load_tide", "t2", ".nc.gz") >>,
            TYPE |-> "z",
            SCALE |-> <<1, 100>>,
            GZIP |-> TRUE,
            reference |-> "https://www.aviso.altimetry.fr/en/data/productsauxiliary-products/global-tide-fes.html",
            c |-> << "2n2", "eps2", "j1", "k1", "k2", "l2", "lambda2", "m2",
                     "m3", "m4", "m6", "m8", "mf", "mks2", "mm", "mn4",
                     "ms4", "msf", "msqm", "mtm", "mu2", "n2", "n4", "nu2",
                     "o1", "p1", "q1", "r2", "s1", "s2", "s4", "sa", "ssa",
                     "t2" >>]

\* model_format in ('netcdf'): the parentheses build no tuple, so this is
\* Python's substring test on the string 'netcdf'
Substrings_netcdf ==
    {"", "n", "e", "t", "c", "d", "f", "ne", "et", "tc", "cd", "df",
     "net", "etc", "tcd", "cdf", "netc", "etcd", "tcdf", "netcd", "etcdf",
     "netcdf"}

\* the branch of the extraction chain a storage format takes in each driver;
\* the chain has no else
ATL11_Branch(fmt) ==
    CASE fmt \in {"OTIS", "ATLAS"} -> "extract_tidal_constants"
      [] fmt = "netcdf"            -> "extract_netcdf_constants"
      [] fmt = "GOT"               -> "extract_GOT_constants"
      [] fmt = "FES"               -> "extract_FES_constants"
      [] OTHER                     -> "none"

OIB_Branch(fmt) ==
    CASE fmt \in {"OTIS", "ATLAS"}   -> "extract_tidal_constants"
      [] fmt \in Substrings_netcdf   -> "extract_netcdf_constants"
      [] fmt = "GOT"                 -> "extract_GOT_constants"
      [] fmt = "FES"                 -> "extract_FES_constants"
      [] OTHER                       -> "none"

Branch(d, fmt) == IF d = "ATL11" THEN ATL11_Branch(fmt) ELSE OIB_Branch(fmt)

\* the locals of the catalog the extraction call of a branch reads
ExtractionReadsEPSG(branch) ==
    CASE branch = "extract_tidal_constants" ->
           {"grid_file", "model_file", "EPSG", "TYPE", "model_format"}
      [] branch = "extract_netcdf_constants" ->
           {"grid_file", "model_file", "EPSG", "TYPE", "SCALE", "GZIP"}
      [] branch = "extract_GOT_constants" ->
           {"model_file", "SCALE", "GZIP"}
      [] branch = "extract_FES_constants" ->
           {"model_file", "TYPE", "SCALE", "GZIP"}
      [] OTHER -> {}

ExtractionReads(branch) ==
    CASE branch = "extract_tidal_constants" ->
           {"grid_file", "model_file", "EPSG", "TYPE", "model_format"}
      [] branch = "extract_netcdf_constants" ->
           {"grid_file", "model_file", "TYPE", "SCALE", "GZIP"}
      [] branch = "extract_GOT_constants" ->
           {"model_file", "SCALE", "GZIP"}
      [] branch = "extract_FES_constants" ->
           {"model_file", "TYPE", "SCALE", "GZIP"}
      [] OTHER -> {}

\* the extraction services that answer with the constituent list c
ReturnsConstituents ==
    {"extract_tidal_constants", "extract_netcdf_constants",
     "extract_GOT_constants"}

\* the constituent lists a model file can answer with
ReturnedLists == {<<"m2">>, <<"m2", "s2">>}

zeros_like(t) == [service |-> "zeros_like", of |-> t]
calc_delta_time(t) == [service |-> "calc_delta_time", of |-> t]
Unbound == [service |-> "unbound", of |-> "none"]

\* deltat as the branch sets it, from the tide time of the driver
DeltaTZeros(branch, t) ==
    IF branch = "none" THEN Unbound ELSE zeros_like(t)

DeltaTOf(branch, t) ==
    CASE branch = "extract_tidal_constants"  -> zeros_like(t)
      [] branch = "extract_netcdf_constants" -> zeros_like(t)
      [] branch = "extract_GOT_constants"    -> calc_delta_time(t)
      [] branch = "extract_FES_constants"    -> calc_delta_time(t)
      [] OTHER                               -> Unbound

\* the name of the normalized tide time in each driver
TideTime(d) == IF d = "ATL11" THEN "tide_time" ELSE "t"

\* c at the prediction calls: the answer of the extraction service, or the
\* list of the catalog where the service answers with amp,ph only
PredictionConstituentsFromAnswer(desc, answer) == answer

PredictionConstituents(desc, answer) ==
    IF "c" \in DOMAIN desc /\ answer = <<>> THEN desc.c ELSE answer

InitCatalog ==
    /\ CtlIdle /\ TideIdle /\ SubIdle /\ AuxIdleExcept("cat")
    /\ kdriver \in {"ATL11", "OIB"}
    /\ kmodel \in model_choices
    /\ kdesc = <<>> /\ kextract = <<>> /\ kdeltat = <<>> /\ kpredict = <<>>
    /\ kerr = "none"
    /\ kpc = "catalog"

K_CatalogATL11 ==
    /\ kpc = "catalog" /\ kdriver = "ATL11"
    /\ kdesc' = ATL11_Catalog(kmodel)
    /\ kpc' = "extract"
    /\ UNCHANGED <<kdriver, kmodel, kextract, kdeltat, kpredict, kerr>>
    /\ UNCHANGED notCat

K_CatalogOIB ==
    /\ kpc = "catalog" /\ kdriver = "OIB"
    /\ kdesc' = OIB_Catalog(kmodel)
    /\ kpc' = "extract"
    /\ UNCHANGED <<kdriver, kmodel, kextract, kdeltat, kpredict, kerr>>
    /\ UNCHANGED notCat

\* the extraction branch: the call reads the locals of the descriptor (a
\* name the catalog did not bind is a NameError), then deltat is set
K_Extract ==
    /\ kpc = "extract"
    /\ LET b == Branch(kdriver, kdesc.model_format)
       IN  IF ExtractionReads(b) \subseteq DOMAIN kdesc
           THEN /\ \E answer \in (IF b \in ReturnsConstituents
                                  THEN ReturnedLists ELSE {<<>>}) :
                       kextract' = [service |-> b,
                                    args |-> [f \in ExtractionReads(b) |->
                                                 kdesc[f]],
                                    c |-> answer]
                /\ kdeltat' = DeltaTOf(b, TideTime(kdriver))
                /\ kpc' = "predict"
                /\ UNCHANGED kerr
           ELSE /\ kerr' = "NameError"
                /\ kpc' = "error"
                /\ UNCHANGED <<kextract, kdeltat>>
    /\ UNCHANGED <<kdriver, kmodel, kdesc, kpredict>>
    /\ UNCHANGED notCat

\* predict_tide_drift and infer_minor_corrections get the same c, DELTAT and
\* CORRECTIONS
K_Predict ==
    /\ kpc = "predict"
    /\ kpredict' = [c |-> PredictionConstituents(kdesc, kextract.c),
                    DELTAT |-> kdeltat,
                    CORRECTIONS |-> kdesc.model_format]
    /\ kpc' = "done"
    /\ UNCHANGED <<kdriver, kmodel, kdesc, kextract, kdeltat, kerr>>
    /\ UNCHANGED notCat

NextCatalog == K_CatalogATL11 \/ K_CatalogOIB \/ K_Extract \/ K_Predict

SpecCatalog == InitCatalog /\ [][NextCatalog]_vars

(***************************************************************************)
(* SpecOutput: the ATL11 driver run on two different input files of the    *)
(* same directory with the same model.  An input filename is the record    *)
(* of its parts: for a name that holds a granule pattern, the text before  *)
(* the pattern (head), the tokens of the pattern and the text between the  *)
(* version and ".h5" (AUX); for any other name, its base and extension.    *)
(***************************************************************************)
Heads == {"", "processed_", "my_"}
Tracks == {"0001", "0002"}
Auxiliaries == {"", "_a"}

GranuleNames ==
    [kind : {"granule"}, head : Heads, PRD : {"ATL11"}, TRK : Tracks,
     GRAN : {"03"}, SCYC : {"01"}, ECYC : {"04"}, RL : {"002"}, VERS : {"01"},
     AUX : Auxiliaries]

OtherNames ==
    [kind : {"other"}, base : {"mytrack", "ATL11_copy"}, ext : {".h5", ".hdf5"}]

InputNames == GranuleNames \cup OtherNames

\* rx.findall(INPUT_FILE).pop(): the pattern is searched for anywhere in the
\* name and anchored at its end only, so text before it is skipped; the
\* optional first group is 'processed_' or empty.  No match raises.
rx_findall(f) ==
    IF f.kind = "granule"
      THEN [match |-> TRUE,
            SUB |-> IF f.head = "processed_" THEN "processed_" ELSE "",
            PRD |-> f.PRD, TRK |-> f.TRK, GRAN |-> f.GRAN, SCYC |-> f.SCYC,
            ECYC |-> f.ECYC, RL |-> f.RL, VERS |-> f.VERS, AUX |-> f.AUX]
      ELSE [match |-> FALSE]

\* OUTPUT_FILE: the granule format filled with PRD, TIDE_MODEL and the tokens
\* after SUB, or the generic format filled with the parts of splitext
OutputFile(f, m) ==
    LET t == rx_findall(f)
    IN  IF t.match
          THEN <<"{0}_{1}_TIDES_{2}{3}_{4}{5}_{6}_{7}{8}.h5",
                 t.PRD, m, t.TRK, t.GRAN, t.SCYC, t.ECYC, t.RL, t.VERS, t.AUX>>
          ELSE <<"{0}_{1}_TIDES{2}", f.base, m, f.ext>>

\* h5py.File(FILENAME, 'w') of the writer called with CLOBBER=True: the file
\* is created, or truncated if it exists; its INPUT attribute names the input
Clobber(dir, name, input) ==
    [x \in (DOMAIN dir) \cup {name} |->
        IF x = name THEN [INPUT |-> input] ELSE dir[x]]

InitOutput ==
    /\ CtlIdle /\ TideIdle /\ SubIdle /\ AuxIdleExcept("out")
    /\ oinputs \in {p \in InputNames \X InputNames : p[1] # p[2]}
    /\ omodel \in NameModels
    /\ orun = 1
    /\ OUTPUT_FILE = <<>>
    /\ odirectory = <<>>

\* one run: name the output, then write it
O_Run ==
    /\ orun \in 1..2
    /\ LET name == OutputFile(oinputs[orun], omodel)
       IN  /\ OUTPUT_FILE' = Append(OUTPUT_FILE, name)
           /\ odirectory' = Clobber(odirectory, name, oinputs[orun])
    /\ orun' = orun + 1
    /\ UNCHANGED <<oinputs, omodel>>
    /\ UNCHANGED notOut

NextOutput == O_Run

SpecOutput == InitOutput /\ [][NextOutput]_vars

(***************************************************************************)
(* SpecPass: the arrays of an ATL11 product from the reader to the output  *)
(* file.  Memory is a heap of buffers, so that a view (np.ma.array of an   *)
(* array shares its data) and a copy (.copy()) are told apart.  A buffer   *)
(* is named <<owner, pair, track, key>>; a cell of an input array records  *)
(* where it was read from and whether it holds the fill value.             *)
(***************************************************************************)
PassPairs  == {"pt1", "pt3"}
TrackTypes    == {"AT", "XT"}
PassKeys   == {"ref_pt", "cycle_number", "delta_time", "latitude", "longitude"}

\* the arrays an input product may hold for one variable: every cell valid,
\* or (delta_time only) the first cell at the fill value
InputArray(p, t, k, firstFill) ==
    [n \in 1..NPoints |->
        [src |-> <<p, t, k>>, n |-> n, fill |-> firstFill /\ n = 1]]

\* heap with the buffers of new allocated or assigned
Store(h, new) ==
    [b \in (DOMAIN h) \cup (DOMAIN new) |->
        IF b \in DOMAIN new THEN new[b] ELSE h[b]]

\* the buffer behind each local of the loop body: ref_pt[track] is a copy,
\* latitude, longitude and delta_time are masked views of the arrays read
LocalBuffer(p, t, k) ==
    IF k = "ref_pt" THEN <<"local", p, t, k>> ELSE <<"mds", p, t, k>>

\* every output variable copied from the along-track source
SourceAlongTrack(p, t, k) ==
    IF k = "cycle_number" THEN <<"mds", p, "AT", k>>
    ELSE LocalBuffer(p, "AT", k)

\* the buffer the assembler copies for an output variable: the local of the
\* track, or for cycle_number the array read
Source(p, t, k) ==
    IF k = "cycle_number" THEN <<"mds", p, t, k>> ELSE LocalBuffer(p, t, k)

\* the buffers the tide step assigns into: tide[track].data and .mask
TideBuffers(p) == {<<"tide", p, t, "tide">> : t \in TrackTypes}

InitPass ==
    /\ CtlIdle /\ TideIdle /\ SubIdle /\ AuxIdleExcept("pass")
    /\ \E ps \in SUBSET PassPairs :
          /\ \E ff \in [ps \X TrackTypes -> BOOLEAN] :
                pinput = [b \in ps \X TrackTypes \X PassKeys |->
                            InputArray(b[1], b[2], b[3],
                                       b[3] = "delta_time" /\ ff[<<b[1], b[2]>>])]
          /\ ppairs = IF ps = {} THEN <<>>
                      ELSE IF ps = PassPairs THEN <<"pt1", "pt3">>
                      ELSE <<CHOOSE p \in ps : TRUE>>
    /\ heap = <<>>
    /\ assembled = <<>>
    /\ pfile = <<>>
    /\ ppc = "read"

\* read_HDF5_ATL11: every array of every pair is in memory
P_Read ==
    /\ ppc = "read"
    /\ heap' = [b \in {<<"mds", x[1], x[2], x[3]>> : x \in DOMAIN pinput} |->
                   pinput[<<b[2], b[3], b[4]>>]]
    /\ ppc' = IF ppairs = <<>> THEN "write" ELSE "extract"
    /\ UNCHANGED <<pinput, ppairs, assembled, pfile>>
    /\ UNCHANGED notPass

\* the locals of the pair, and tide[track] allocated with its mask set where
\* delta_time is the fill value
P_Extract ==
    /\ ppc = "extract"
    /\ LET p == Head(ppairs)
           new(b) == IF b[1] = "local" THEN heap[<<"mds", b[2], b[3], b[4]>>]
                     ELSE [n \in 1..NPoints |->
                              [data |-> "empty",
                               mask |-> heap[<<"mds", b[2], b[3], "delta_time">>][n].fill]]
       IN  heap' = Store(heap,
                         [b \in {<<"local", p, t, "ref_pt">> : t \in TrackTypes}
                                    \cup TideBuffers(p) |-> new(b)])
    /\ ppc' = "tide"
    /\ UNCHANGED <<pinput, ppairs, assembled, pfile>>
    /\ UNCHANGED notPass

\* for both tracks: the mask is or-ed with np.any(hc.mask,axis=1), the valid
\* cells get the prediction and the others the fill value
P_Tide ==
    /\ ppc = "tide"
    /\ \E hcmask \in [TrackTypes -> [1..NPoints -> BOOLEAN]] :
          /\ \A t \in TrackTypes : \A n \in 1..NPoints : hcmask[t][n] => n = NPoints
          /\ LET p == Head(ppairs)
                 new(b) == [n \in 1..NPoints |->
                              LET m == heap[b][n].mask \/ hcmask[b[3]][n]
                              IN  [data |-> IF m THEN "fill" ELSE "tide",
                                   mask |-> m]]
             IN  heap' = Store(heap, [b \in TideBuffers(p) |-> new(b)])
    /\ ppc' = "assemble"
    /\ UNCHANGED <<pinput, ppairs, assembled, pfile>>
    /\ UNCHANGED notPass

\* the assembler: every output variable of the pair is a copy of its source
P_Assemble ==
    /\ ppc = "assemble"
    /\ LET p    == Head(ppairs)
           outs == {<<"out", p, t, k>> : t \in TrackTypes, k \in PassKeys \cup {"tide"}}
           new(b) == IF b[4] = "tide" THEN heap[<<"tide", b[2], b[3], "tide">>]
                     ELSE heap[Source(b[2], b[3], b[4])]
       IN  /\ heap' = Store(heap, [b \in outs |-> new(b)])
           /\ assembled' = [x \in (DOMAIN assembled) \cup
                                  {<<b[2], b[3], b[4]>> : b \in outs} |->
                               IF x \in DOMAIN assembled THEN assembled[x]
                               ELSE <<"out", x[1], x[2], x[3]>>]
    /\ ppairs' = Tail(ppairs)
    /\ ppc' = IF Len(ppairs) = 1 THEN "write" ELSE "extract"
    /\ UNCHANGED <<pinput, pfile>>
    /\ UNCHANGED notPass

\* the writer: one group per key of IS2_atl11_tide that matches pt\d, and in
\* it one dataset per variable with data=v
P_Write ==
    /\ ppc = "write"
    /\ pfile' = [x \in DOMAIN assembled |-> heap[assembled[x]]]
    /\ ppc' = "done"
    /\ UNCHANGED <<pinput, ppairs, heap, assembled>>
    /\ UNCHANGED notPass

NextPass == P_Read \/ P_Extract \/ P_Tide \/ P_Assemble \/ P_Write

SpecPass == InitPass /\ [][NextPass]_vars

(***************************************************************************)
(* Claims settled under Spec                                               *)
(***************************************************************************)
Services == {"harmonic", "deltat", "predict", "minor"}

\* C2: when the harmonic-constant extraction raises, the run has ended in an
\* error and no output file exists for that input: it is never a successful
\* run with an all-masked tide variable.
C2_HarmonicFailureIsHardError ==
    fault = "harmonic" =>
        /\ pc = "error"
        /\ err = "ModelIOError"
        /\ out[i].state = "absent"

C2_Witness ==
    /\ fault = "harmonic" /\ pc = "error"
    /\ i = 2 /\ out[1].state = "closed"

\* C3 (as stated): whichever of the four service calls raised, the run left
\* no output file that it created or truncated for that input.
C3_NoOutputAfterAnyServiceFailure ==
    (pc = "error" /\ fault \in Services) => out[i].state = "absent"

\* C3 (amended): a failure of the harmonic extraction or of the delta-time
\* interpolation leaves no output file in either driver, and neither does a
\* failure of the prediction or of the minor inference in the ATL11 driver;
\* the IceBridge driver has its output file open, created or truncated, when
\* the prediction or the minor inference raises.
C3_OutputOpenedAfterServices ==
    (pc = "error" /\ fault \in Services) =>
        IF driver = "OIB" /\ fault \in {"predict", "minor"}
          THEN out[i].state = "open"
          ELSE out[i].state = "absent"

C3_Witness ==
    /\ pc = "error" /\ driver = "ATL11" /\ fault \in {"predict", "minor"}
    /\ track = "XT"

\* C4: a filename-grammar error or a missing-dataset error of one file is
\* confined to it: every later file of the batch has its output written.
C4_BatchContinuesAfterFileError ==
    (pc \in {"error", "done"}
        /\ err \in {"UnboundLocalError", "IndexError", "KeyError"}) =>
        \A j \in (i + 1)..Len(batch) : out[j].state = "closed"

\* C5: with a model id outside the catalog no input file is ever read, no
\* output file is ever opened, and the run does not end successfully.
C5_UnknownModelFailsBeforeIO ==
    (driver \in {"ATL11", "OIB"} /\ TIDE_MODEL \notin model_choices) =>
        /\ inputRead = {}
        /\ \A j \in 1..Len(batch) : out[j].state = "absent"
        /\ pc # "done"

\* C6: an IceBridge input whose basename matches none of the naming grammars
\* (ATM icessn, ATM Level-1b, LVIS, LVIS-GH) is rejected with an error: its
\* data is never read, no output is created for it, and the run never gets
\* past the step that takes the filename tokens.
MatchesNoGrammar(name) ==
    ~ \/ name.form = "icessn" /\ name.mission \in {"BLATM2", "ILATM2"}
      \/ name.form = "qfit" /\ name.mission \in {"BLATM1b", "ILATM1b"}
      \/ name.form = "lvis" /\ name.mission \in {"BLVIS2", "BVLIS2", "ILVIS2", "ILVGH2"}

C6_UnmatchedNameRejected ==
    driver = "OIB" =>
        \A j \in 1..Len(batch) :
            MatchesNoGrammar(batch[j]) =>
                /\ j \notin inputRead
                /\ out[j].state = "absent"
                /\ i <= j
                /\ (i = j => pc \in {"main", "select", "tokens", "error"})
                /\ (i = j /\ pc = "error" =>
                        err \in {"NameError", "UnboundLocalError"})

C6_Witness ==
    /\ driver = "OIB" /\ pc = "error" /\ err = "UnboundLocalError"
    /\ MatchesNoGrammar(batch[i]) /\ i = 2 /\ out[1].mode

\* C18: in every run of either driver the permission bits are applied to the
\* output file only after its handle has been closed, and only when the
\* whole product was assembled and written without error; a run that fails
\* never reaches the permission step.
C18_State ==
    /\ \A j \in DOMAIN out : out[j].mode => out[j].state = "closed"
    /\ pc = "error" => ~out[i].mode

\* the step that applies the permission bits
C18_Step ==
    \A j \in DOMAIN out :
       (out'[j].mode /\ ~out[j].mode) =>
          /\ j = i
          /\ out[j].state = "closed"
          /\ err = "none" /\ fault = "none"
          /\ pc = "chmod"

\* C18: the permission bits are applied only after the close and only on
\* success, in every state and at every step.
C18_ChmodAfterCloseOnSuccess == []C18_State /\ [][C18_Step]_vars

\* one file got its permission bits and the next file of the batch failed
\* after its output had been opened
C18_Witness ==
    /\ pc = "error" /\ i = 2
    /\ out[1].mode /\ out[1].state = "closed"
    /\ out[2].state = "open" /\ ~out[2].mode

\* C21: every filename the format dispatch accepts for the ATM Level-1b
\* adapter is accepted by that adapter's own filename grammar, so the adapter
\* extracts the mission and date tokens instead of failing; the same holds
\* for the ATM icessn and LVIS adapters.
C21_DispatchAgreesWithAdapter ==
    (driver = "OIB" /\ i \in DOMAIN batch /\ pc # "main" /\ OIB # "unbound") =>
        /\ AdapterGrammar(OIB, batch[i])
        /\ err # "IndexError"

\* the same for the icessn and LVIS adapters alone
C21_DispatchAgreesForIcessnAndLVIS ==
    (driver = "OIB" /\ i \in DOMAIN batch /\ pc # "main"
       /\ OIB \in {"ATM", "LVIS", "LVGH"}) =>
        /\ AdapterGrammar(OIB, batch[i])
        /\ err # "IndexError"

C21_Example ==
    /\ driver = "OIB" /\ OIB = "ATM1b" /\ batch[i].mission = "ILATM1b"
    /\ pc = "error" /\ err = "IndexError" /\ i \notin inputRead

(***************************************************************************)
(* Claims settled under SpecTide                                           *)
(***************************************************************************)
Written == tpc = "written"

\* C1: in the written tide variable of either driver a point holds the fill
\* value if and only if its validity mask is true, and no unmasked point
\* holds NaN.
C1_SentinelIffMasked ==
    Written =>
        \A p \in Points : \A c \in Columns(kind) :
            /\ (product.tide[p][c] = product.fillvalue) <=> tide_mask[p][c]
            /\ ~tide_mask[p][c] => product.tide[p][c] # NaN

\* C7: before NaN folding the tide mask of a point is true exactly when some
\* constituent's extraction mask is true there or the input time of the point
\* is the input fill value (the IceBridge adapters return plain arrays with no
\* fill value, so no IceBridge point is marked invalid by its input).
InputInvalid(p, c) == kind \in {"AT", "XT"} /\ delta_time[p][c] = dt_fill

BeforeFolding == (kind \in {"AT", "XT"} /\ tpc = "fold") \/ (kind = "OIB" /\ tpc = "write")

C7_MaskIsUnionOfCauses ==
    BeforeFolding =>
        \A p \in Points : \A c \in Columns(kind) :
            tide_mask[p][c] <=>
                ((\E k \in Constituents : hc_mask[p][k]) \/ InputInvalid(p, c))

C7_Witness ==
    /\ kind = "AT" /\ tpc = "fold"
    /\ hc_mask[1]["m2"] /\ ~hc_mask[1]["s2"] /\ tide_mask[1][1]
    /\ delta_time[2][1] = dt_fill /\ ~(\E k \in Constituents : hc_mask[2][k])
    /\ tide_mask[2][1] /\ ~tide_mask[2][2]

\* C8: along-track masking is independent per cycle column.  In the written
\* product a column whose input times are all fill is the fill value at every
\* point; a column whose input times are all valid, whose rows have unmasked
\* constituents and whose predictions are not NaN holds at every point the
\* value the services returned, which is not the fill value; and a pass of
\* the cycle loop changes the mask and the values of its own column only.
AllFill(c)  == \A p \in Points : delta_time[p][c] = dt_fill
AllValid(c) ==
    \A p \in Points :
        /\ delta_time[p][c] # dt_fill
        /\ ~(\E k \in Constituents : hc_mask[p][k])
        /\ \A r \in svc : (r.p = p /\ r.c = c) => r.v # NaN

C8_Columns ==
    (Written /\ kind = "AT") =>
        \A c \in Cycles :
            /\ AllFill(c) =>
                  \A p \in Points : product.tide[p][c] = fv /\ tide_mask[p][c]
            /\ AllValid(c) =>
                  \A p \in Points :
                      /\ product.tide[p][c] # fv
                      /\ ~tide_mask[p][c]
                      /\ [p |-> p, c |-> c, v |-> product.tide[p][c]] \in svc

C8_Frame ==
    (kind = "AT" /\ tpc = "cycle") =>
        \A p \in Points : \A c \in Cycles \ {cycle} :
            /\ tide_mask'[p][c] = tide_mask[p][c]
            /\ tide_data'[p][c] = tide_data[p][c]

C8_PerCycleIndependence == []C8_Columns /\ [][C8_Frame]_vars

C8_Witness ==
    /\ Written /\ kind = "AT"
    /\ AllFill(1) /\ AllValid(2)
    /\ \A p \in Points : product.tide[p][1] = fv /\ product.tide[p][2] = 4

\* C9: the geospatial bounds written as file attributes are the minimum and
\* maximum latitude and longitude over the non-masked points only (the points
\* with at least one unmasked tide value).
Unmasked == {p \in Points : \E c \in Columns(kind) : ~tide_mask[p][c]}

C9_BoundsOverUnmaskedOnly ==
    (Written /\ kind \in {"AT", "OIB"} /\ Unmasked # {}) =>
        /\ product.geospatial.lat_min = Min({latitude[p] : p \in Unmasked})
        /\ product.geospatial.lat_max = Max({latitude[p] : p \in Unmasked})
        /\ product.geospatial.lon_min = Min({longitude[p] : p \in Unmasked})
        /\ product.geospatial.lon_max = Max({longitude[p] : p \in Unmasked})

\* the calls of the two prediction services made so far
PredictionCalls ==
    {k \in 1..Len(calls) : calls[k].name \in {"predict", "minor"}}

\* C22: in both drivers the prediction service and the minor-inference
\* service are given only points whose validity mask is false at the time of
\* the call; a point masked by the constituent extraction or by the input
\* track is never passed to either service.
C22_ServicesGetUnmaskedPointsOnly ==
    \A k \in PredictionCalls : \A p \in calls[k].pts :
        /\ ~AnyMask(hc_mask[p])
        /\ ~InputInvalid(p, calls[k].col)

\* the same for the ATL11 driver alone
C22_ATL11ServicesGetUnmaskedPointsOnly ==
    kind \in {"AT", "XT"} =>
        \A k \in PredictionCalls : \A p \in calls[k].pts :
            /\ ~AnyMask(hc_mask[p])
            /\ ~InputInvalid(p, calls[k].col)

C22_Example ==
    /\ kind = "OIB" /\ tpc = "written"
    /\ AnyMask(hc_mask[1]) /\ 1 \in calls[2].pts /\ calls[2].name = "predict"
    /\ product.tide[1][1] = fill_value

\* the calls of one service on one column
CallsOf(name, c) ==
    {k \in 1..Len(calls) : calls[k].name = name /\ calls[k].col = c}

AfterPrediction == tpc \in {"fold", "write", "written"}

\* C23: for an along-track track the ATL11 driver calls the prediction
\* service and the minor-inference service exactly once per cycle column,
\* each call on that column's times and delta-time corrections with the
\* harmonic constants of the same rows; for a crossing-track track it calls
\* each service exactly once; in every call the time, harmonic-constant and
\* delta-time arguments have the same number of points.
C23_OneCallPerColumn ==
    /\ \A k \in PredictionCalls :
          /\ calls[k].hc = calls[k].pts
          /\ calls[k].deltat = calls[k].pts
          /\ Cardinality(calls[k].hc) = Cardinality(calls[k].pts)
          /\ Cardinality(calls[k].deltat) = Cardinality(calls[k].pts)
    /\ (kind \in {"AT", "XT"} /\ AfterPrediction) =>
          /\ \A c \in Columns(kind) :
                /\ Cardinality(CallsOf("predict", c)) = 1
                /\ Cardinality(CallsOf("minor", c)) = 1
          /\ Cardinality(PredictionCalls) = 2 * Cardinality(Columns(kind))
    /\ (kind = "AT" /\ tpc = "cycle") =>
          \A c \in Cycles :
             Cardinality(CallsOf("predict", c)) = (IF c < cycle THEN 1 ELSE 0)

\* an along-track track with every column predicted on a proper subset of
\* its rows
C23_Witness ==
    /\ kind = "AT" /\ tpc = "written"
    /\ \A c \in Cycles : \E k \in CallsOf("predict", c) :
          calls[k].pts # Points /\ calls[k].pts # {}

(***************************************************************************)
(* Claims settled under SpecSubset                                         *)
(***************************************************************************)
RECURSIVE Expansion(_)
\* the concatenation, in written order, of what the items list
Expansion(its) ==
    IF Len(its) = 0 THEN <<>>
    ELSE (IF its[1].kind = "index" THEN <<its[1].a>>
          ELSE IF its[1].a > its[1].b THEN <<>>
          ELSE [k \in 1..(its[1].b - its[1].a + 1) |-> its[1].a + k - 1])
         \o Expansion(Tail(its))

InFile(its) == \A j \in 1..Len(Expansion(its)) : Expansion(its)[j] < nrec

\* C10: the suffix is expanded to the concatenation, in written order, of its
\* items (i gives i, a-b gives a..b inclusive), and for a suffix whose indices
\* are all records of the file the adapter returns exactly the records at
\* those indices in that order.
C10_SubsetReturnsListedRecords ==
    /\ (spc \in {"read", "done", "error"} /\ hasSuffix) =>
          input_subsetter = [none |-> FALSE, list |-> Expansion(items)]
    /\ (hasSuffix /\ InFile(items) /\ spc \notin {"parse", "read"}) =>
          /\ spc = "done"
          /\ dinput = Expansion(items)
          /\ file_lines = Len(Expansion(items))

\* the same statement for the suffixes that list at least one index
C10_ListedRecordsWhenNonEmpty ==
    /\ (spc \in {"read", "done", "error"} /\ hasSuffix) =>
          input_subsetter = [none |-> FALSE, list |-> Expansion(items)]
    /\ (hasSuffix /\ InFile(items) /\ Len(Expansion(items)) > 0
            /\ spc \notin {"parse", "read"}) =>
          /\ spc = "done"
          /\ dinput = Expansion(items)
          /\ file_lines = Len(Expansion(items))

\* "[0-2,5]" on a file of 6 records gives the records 0, 1, 2, 5
C10_Example ==
    /\ spc = "done" /\ arg = <<"0", "-", "2", ",", "5">> /\ nrec = 6
    /\ dinput = <<0, 1, 2, 5>> /\ file_lines = 4

\* C27: whenever a suffix is present, the number of records passed downstream
\* is the number of indices the suffix lists after expanding ranges; a suffix
\* that lists no index ("[]", or a range whose start is greater than its end)
\* gives zero records and never the whole file.
C27_RecordCountIsListedCount ==
    (hasSuffix /\ spc = "done") =>
        /\ Len(dinput) = Len(Expansion(items))
        /\ file_lines = Len(Expansion(items))

\* the count is the listed count for every suffix that lists an index; a
\* suffix that lists none passes the whole file
C27_CountWhenNonEmpty ==
    (hasSuffix /\ spc = "done") =>
        /\ Len(Expansion(items)) > 0 =>
              /\ Len(dinput) = Len(Expansion(items))
              /\ file_lines = Len(Expansion(items))
        /\ Len(Expansion(items)) = 0 =>
              /\ Len(dinput) = nrec
              /\ file_lines = nrec

\* "[5-2]" on a file of 6 records passes all 6 records
C27_Example ==
    /\ spc = "done" /\ hasSuffix /\ arg = <<"5", "-", "2">> /\ nrec = 6
    /\ input_subsetter = [none |-> FALSE, list |-> <<>>]
    /\ Len(dinput) = 6 /\ file_lines = 6

(***************************************************************************)
(* Claims settled under SpecTime                                           *)
(***************************************************************************)
\* C11: for every packed time HHMMSS.mmm of the domain (HH < 10 included) the
\* ATM Level-1b adapter decodes hour = HH, minute = MM and second = SS.mmm
\* exactly, in each of its three branches.
C11_PackedTimeDecoded ==
    qpc = "done" =>
        /\ hour = packed_time.HH * 1000
        /\ minute = packed_time.MM * 1000
        /\ second = packed_time.ms

\* the same statement for the binary and HDF5 branches only
C11_DecodedWhenFormatted ==
    (qpc = "done" /\ SFX \in {"qi", "h5"}) =>
        /\ hour = packed_time.HH * 1000
        /\ minute = packed_time.MM * 1000
        /\ second = packed_time.ms

\* 120000.500 decodes to hour 12, minute 0, second 0.5
C11_Example ==
    /\ qpc = "done"
    /\ line_contents = <<"1", "2", "0", "0", "0", "0", ".", "5", "0", "0">>
    /\ hour = 12000 /\ minute = 0 /\ second = 500

(***************************************************************************)
(* Claims settled under SpecLVIS                                           *)
(***************************************************************************)
Flat(p) == fileID[p].low = fileID[p].high

\* C12: for every LVIS shot whose low elevation equals its high elevation, in
\* both schema generations, the adapter outputs the low elevation and the
\* low-return latitude and longitude (never the result of the RH50/RH100
\* ratio, never NaN), and an uncertainty of 0.
C12_FlatReturnUsesLow ==
    lpc = "done" =>
        \A p \in Shots :
            Flat(p) =>
                /\ LVIS_L2_input[p].data = fileID[p].low
                /\ LVIS_L2_input[p].lat = elev_low_lat
                /\ LVIS_L2_input[p].lon = elev_low_lon
                /\ LVIS_L2_input[p].error = 0

\* the same statement without the uncertainty
C12_FlatReturnElevationAndPosition ==
    lpc = "done" =>
        \A p \in Shots :
            Flat(p) =>
                /\ LVIS_L2_input[p].data = fileID[p].low
                /\ LVIS_L2_input[p].lat = elev_low_lat
                /\ LVIS_L2_input[p].lon = elev_low_lon

\* a flat shot with RH100 = 0 (the ratio is not finite) next to a shot that
\* is not flat
C12_Example ==
    /\ lpc = "done" /\ LDS_VERSION = "2.0.2"
    /\ Flat(1) /\ fileID[1].RH100 = 0 /\ file_input[1].lat = NaN
    /\ LVIS_L2_input[1].lat = elev_low_lat /\ LVIS_L2_input[1].error = 0
    /\ ~Flat(2) /\ LVIS_L2_input[2].lat = 71

(***************************************************************************)
(* Claims settled under SpecHem                                            *)
(***************************************************************************)
HemDecided == hpc \in {"done", "error"}

\* C13: for every ATM input with at least one record the ATM adapters return
\* 'N' when the records with latitude >= 0 are the majority and 'S' when the
\* records with latitude < 0 are the majority, files with records of both
\* signs included; the LVIS adapter returns the hemisphere of the region code
\* of the filename.
C13_HemisphereByMajority ==
    HemDecided =>
        /\ (adapter \in {"icessn", "qfit"} /\ CountN(lat) > CountS(lat)) =>
               hpc = "done" /\ HEM = "N"
        /\ (adapter \in {"icessn", "qfit"} /\ CountS(lat) > CountN(lat)) =>
               hpc = "done" /\ HEM = "S"
        /\ (adapter = "lvis" /\ REGION = "GL") => hpc = "done" /\ HEM = "N"
        /\ (adapter = "lvis" /\ REGION = "AQ") => hpc = "done" /\ HEM = "S"

\* the same statement for the ATM files whose records all have one sign
C13_HemisphereOfOneSign ==
    HemDecided =>
        /\ (adapter \in {"icessn", "qfit"} /\ CountS(lat) = 0) =>
               hpc = "done" /\ HEM = "N"
        /\ (adapter \in {"icessn", "qfit"} /\ CountN(lat) = 0) =>
               hpc = "done" /\ HEM = "S"
        /\ (adapter = "lvis" /\ REGION = "GL") => hpc = "done" /\ HEM = "N"
        /\ (adapter = "lvis" /\ REGION = "AQ") => hpc = "done" /\ HEM = "S"

(***************************************************************************)
(* Claims settled under SpecName                                           *)
(***************************************************************************)
BothNamed == run = 3

\* C14: two runs of a driver given the same input filename and the same
\* model id produce the same output filename, whatever the data of the file
\* and whatever subset is selected.
C14_NameFromTokensAndModel ==
    BothNamed => FILENAME[1] = FILENAME[2]

\* the same statement for the ATL11 driver, and for two IceBridge runs to
\* which the adapter returned the same hemisphere and the same start second
C14_NameOfSameRead ==
    (BothNamed /\ (script = "ATL11"
                     \/ /\ HemOf(input_file, reads[1]) = HemOf(input_file, reads[2])
                        /\ reads[1].tmin % day = reads[2].tmin % day)) =>
        FILENAME[1] = FILENAME[2]

(***************************************************************************)
(* Claims settled under SpecRerun                                          *)
(***************************************************************************)
BothWritten == rpc = "done"

\* an output file without its date_created attribute
Undated(o) == [x \in (DOMAIN o) \ {"date_created"} |-> o[x]]

\* C15: two runs of a driver on the same input with the same model, options
\* and service answers write the same groups, the same variables with the
\* same data and the same variable attributes; only date_created may differ.
C15_RerunWritesSameProduct ==
    BothWritten => Undated(outputs[1]) = Undated(outputs[2])

\* both runs wrote, a cell is masked, and the clock moved between the runs
C15_Witness ==
    /\ BothWritten
    /\ outputs[1].date_created # outputs[2].date_created
    /\ \E p \in Points : hc_any[p] \/ \E c \in Columns(rtrack) : answers[p][c] = "fill"
    /\ \E p \in Points : \E c \in Columns(rtrack) :
          outputs[1].variables.tide[p][c] = TideOf(p, c)

(***************************************************************************)
(* Claims settled under SpecWrite                                          *)
(***************************************************************************)
PairGroups == {"pt", "cycle_stats", "crossing_track_data"}

\* the datasets of the beam pair created so far
PairPaths == {x \in DOMAIN h5 : x[1] \in PairGroups}

\* C16: in the ATL11 writer every variable of a beam-pair group, of its
\* cycle_stats or of its crossing_track_data either declares itself a
\* dimension scale or attaches, per axis, a scale variable already created
\* in the output file at the moment of attachment (along-track scales for
\* cycle_stats, the subgroup's own ref_pt for crossing_track_data); no
\* attachment refers to a missing variable.
C16_State ==
    /\ werr = "none"
    /\ \A x \in PairPaths :
          \/ h5[x].scale /\ h5[x].dims = <<>>
          \/ /\ h5[x].dims # <<>>
             /\ \A j \in 1..Len(h5[x].dims) :
                   /\ h5[x].dims[j] \in DOMAIN h5
                   /\ h5[h5[x].dims[j]].scale
                   /\ h5[x].dims[j][1] =
                        (IF x[1] = "crossing_track_data" THEN x[1] ELSE "pt")

\* a step that creates a dataset attaches only datasets created before it
C16_Step ==
    \A x \in (DOMAIN h5') \ (DOMAIN h5) :
       x[1] \in PairGroups =>
          \A j \in 1..Len(h5'[x].dims) : h5'[x].dims[j] \in DOMAIN h5

\* C16: every variable of the pair is a scale or attaches scales that exist,
\* in every state and at every step.
C16_ScalesExistWhenAttached == []C16_State /\ [][C16_Step]_vars

\* the whole pair is written, with attachments in all three groups
C16_Witness ==
    /\ wdriver = "ATL11" /\ wpc = "done"
    /\ \A g \in PairGroups : \E x \in PairPaths : x[1] = g /\ h5[x].dims # <<>>
    /\ h5[<<"crossing_track_data", "delta_time">>].dims
          = << <<"crossing_track_data", "ref_pt">> >>

\* the fill value the assembler recorded for a created variable
Recorded(x) == IF wdriver = "ATL11" THEN IS2_atl11_fill(x)
               ELSE IF x[2] \in {"lat", "lon", "time"} THEN NoFill
               ELSE Fill(fill_value)

\* C17: every output variable with a recorded fill value is written with
\* that fill value declared on the dataset, for every numeric fill value
\* including 0; variables recorded with no fill value are written with none.
C17_FillValueDeclared ==
    \A x \in DOMAIN h5 : h5[x].fill = Recorded(x)

\* the same for the fill values other than 0
C17_NonZeroFillValueDeclared ==
    \A x \in DOMAIN h5 :
       (Recorded(x).none \/ Recorded(x).value # 0) => h5[x].fill = Recorded(x)

C17_Example ==
    /\ wpc = "done" /\ wdriver = "ATL11"
    /\ FILL_VALUE["rgt"] = 0
    /\ h5[<<"crossing_track_data", "rgt">>].fill = NoFill
    /\ h5[<<"crossing_track_data", "latitude">>].fill = Fill(fv)

\* whether text t ends with the text s
EndsWith(t, s) ==
    /\ Len(t) >= Len(s)
    /\ \A j \in 1..Len(s) : t[Len(t) - Len(s) + j] = s[j]

\* the tide variable name the claim gives a model id
NameFor(m) ==
    IF EndsWith(ModelText(m), <<"_", "l", "o", "a", "d">>) THEN "tide_load"
    ELSE "tide_ocean"

\* the groups of an output file that hold a tide variable
TideGroups == IF wdriver = "ATL11" THEN {"cycle_stats", "crossing_track_data"}
              ELSE {"root"}

TideVariables(g) ==
    {x[2] : x \in {y \in DOMAIN h5 : y[1] = g /\ y[2] \in {"tide_ocean", "tide_load"}}}

\* C19: in both drivers each of the 23 catalog model ids resolves to
\* 'tide_load' when the id ends in '_load' and to 'tide_ocean' otherwise, and
\* exactly one tide variable of that name is written per output group.
C19_TideVariableName ==
    /\ Cardinality(model_choices) = 23
    /\ wpc = "done" =>
          \A g \in TideGroups : TideVariables(g) = {NameFor(wmodel)}
    /\ \A g \in TideGroups : TideVariables(g) \subseteq {NameFor(wmodel)}

C19_Witness ==
    /\ wpc = "done"
    /\ wmodel = "GOT4.10_load"
    /\ \A g \in TideGroups : <<g, "tide_load">> \in DOMAIN h5

\* C25: setting the attributes of the crossing-track variables leaves those
\* of the along-track variables alone: in the written product the
\* along-track delta_time carries coordinates "ref_pt cycle_number latitude
\* longitude" and the crossing-track delta_time carries coordinates
\* "ref_pt latitude longitude".
C25_DeltaTimeCoordinatesPerTrack ==
    (wdriver = "ATL11" /\ wpc = "done") =>
        /\ h5[<<"pt", "delta_time">>].coordinates =
               Attr("ref_pt cycle_number latitude longitude")
        /\ h5[<<"crossing_track_data", "delta_time">>].coordinates =
               Attr("ref_pt latitude longitude")

\* what the product carries instead: the crossing-track value on the
\* along-track delta_time, and no coordinates on the crossing-track one
C25_Written ==
    (wdriver = "ATL11" /\ wpc = "done") =>
        /\ h5[<<"pt", "delta_time">>].coordinates =
               Attr("ref_pt latitude longitude")
        /\ h5[<<"crossing_track_data", "delta_time">>].coordinates = NoAttr
        /\ \A x \in DOMAIN h5 \ {<<"pt", "delta_time">>,
                                 <<"crossing_track_data", "delta_time">>} :
               h5[x].coordinates.none <=> x[2] = "cycle_number"

C25_Example ==
    /\ wdriver = "ATL11" /\ wpc = "done"
    /\ h5[<<"crossing_track_data", "delta_time">>].coordinates = NoAttr

(***************************************************************************)
(* Claims settled under SpecRead                                           *)
(***************************************************************************)
\* the lines of an ASCII file that do not begin with '#'
DataLines == {k \in 1..Len(contents) : contents[k][1] # "#"}

\* C20: after any IceBridge adapter read, with or without a subsetter
\* (also one that repeats an index), the latitude, longitude, time and
\* elevation arrays all have the length the adapter returns as record count
\* (for ASCII input without a subsetter: the number of lines not beginning
\* with '#'), and every dataset written (lat, lon, time, tide) has exactly
\* that length.
C20_ArraysShareRecordCount ==
    /\ derr \in {"none", "IndexError"}
    /\ dpc \in {"write", "written"} =>
          /\ \A key \in Keys : Len(records[key]) = n_lines
          /\ (ftype = "ascii" /\ subsetter.none) => n_lines = Cardinality(DataLines)
    /\ dpc = "written" =>
          /\ DOMAIN datasets = {"lat", "lon", "tide", "time"}
          /\ \A name \in DOMAIN datasets : datasets[name] = n_lines

\* an ASCII file with a comment line, read through a subsetter that repeats
\* an index, and written
C20_Witness ==
    /\ dpc = "written" /\ ftype = "ascii"
    /\ \E k \in 1..Len(contents) : contents[k] = CommentLine
    /\ ~subsetter.none /\ Len(subsetter.list) = 2
    /\ subsetter.list[1] = subsetter.list[2]
    /\ datasets["tide"] = 2 /\ Cardinality(DataLines) # 2

(***************************************************************************)
(* Claims settled under SpecCatalog                                        *)
(***************************************************************************)

GridFormats == {"OTIS", "ATLAS", "netcdf"}
TableFormats == {"GOT", "FES"}

\* C24: in both drivers and for every catalog model, the delta time passed to
\* the prediction services is all zeros exactly when the storage format is
\* OTIS, ATLAS or netcdf, it is the answer of calc_delta_time on the
\* normalized tide time exactly when the format is GOT or FES, and every
\* model takes exactly one of the two branches.
C24_DeltaTimeByFormat ==
    (kpc \in {"predict", "done"}) =>
        /\ kdesc.model_format = ModelFormat(kmodel)
        /\ kdesc.model_format \in GridFormats \cup TableFormats
        /\ (kdeltat = zeros_like(TideTime(kdriver)))
               <=> (kdesc.model_format \in GridFormats)
        /\ (kdeltat = calc_delta_time(TideTime(kdriver)))
               <=> (kdesc.model_format \in TableFormats)
        /\ (kpc = "done" => kpredict.DELTAT = kdeltat)

C24_Witness ==
    /\ kpc = "done" /\ kdriver = "OIB" /\ kmodel = "GOT4.10"
    /\ kpredict.DELTAT = calc_delta_time("t")

C24_WitnessZeros ==
    /\ kpc = "done" /\ kdriver = "ATL11" /\ kmodel = "TPXO9-atlas-v2"
    /\ kpredict.DELTAT = zeros_like("tide_time")

\* the fields of a descriptor the two drivers are compared on
DescriptorFields ==
    {"model_format", "grid_file", "model_file", "EPSG", "SCALE", "GZIP",
     "reference"}

Descriptor(desc) ==
    [f \in DescriptorFields \cap DOMAIN desc |-> desc[f]]

\* C29: the two drivers resolve every catalog id to the same descriptor
\* (storage format, grid file, ordered model file list, projection where one
\* is defined, scale factor, compression flag, reference), and the
\* descriptor binds every name the extraction call of its format reads, so
\* the call never ends in a NameError.
C29_SameDescriptorInBothDrivers ==
    /\ kerr = "none"
    /\ (kpc \notin {"idle", "catalog"}) =>
           /\ Descriptor(kdesc) = Descriptor(ATL11_Catalog(kmodel))
           /\ Descriptor(kdesc) = Descriptor(OIB_Catalog(kmodel))
           /\ DOMAIN ATL11_Catalog(kmodel) = DOMAIN OIB_Catalog(kmodel)
           /\ "model_format" \in DOMAIN kdesc
           /\ ExtractionReads(Branch(kdriver, kdesc.model_format))
                  \subseteq DOMAIN kdesc
    /\ (kpc \in {"predict", "done"}) =>
           /\ kextract.service # "none"
           /\ \A f \in DOMAIN kextract.args :
                  kextract.args[f] = OIB_Catalog(kmodel)[f]

C29_Witness ==
    /\ kpc = "predict" /\ kdriver = "ATL11" /\ kmodel = "TPXO9-atlas-v4"
    /\ kextract.service = "extract_tidal_constants"
    /\ Len(kextract.args.model_file) = 14
    /\ kextract.args.EPSG = "4326"

\* the constituent a model file holds: its name without the extension; the
\* FES2014 file of the lambda2 constituent is named la2
ConstituentOf(file) == IF file.name = "la2" THEN "lambda2" ELSE file.name

\* C30: for FES2014 and FES2014_load in both drivers, the constituent list
\* handed to the prediction services is as long as the ordered model file
\* list handed to the harmonic service, and its i-th entry names the
\* constituent of the i-th file.
C30_ConstituentsAlignWithFiles ==
    (kpc = "done" /\ kmodel \in FESModels) =>
        /\ kextract.service = "extract_FES_constants"
        /\ Len(kpredict.c) = Len(kextract.args.model_file)
        /\ \A n \in DOMAIN kpredict.c :
               kpredict.c[n] = ConstituentOf(kextract.args.model_file[n])

C30_Witness ==
    /\ kpc = "done" /\ kdriver = "OIB" /\ kmodel = "FES2014_load"
    /\ Len(kpredict.c) = 34
    /\ kpredict.c[7] = "lambda2"
    /\ kextract.args.model_file[7].name = "la2"

(***************************************************************************)
(* Claims settled under SpecOutput                                         *)
(***************************************************************************)
BothRun == orun = 3

\* C26: two different ATL11 input filenames of one directory, processed with
\* the same model, never get the same output filename, so after both runs
\* the output of the first still holds what was written from the first
\* input; with or without the 'processed_' prefix, and for names that take
\* the generic pattern.
C26_DistinctInputsDistinctOutputs ==
    BothRun =>
        /\ OUTPUT_FILE[1] # OUTPUT_FILE[2]
        /\ odirectory[OUTPUT_FILE[1]].INPUT = oinputs[1]
        /\ odirectory[OUTPUT_FILE[2]].INPUT = oinputs[2]

\* the inputs that do keep their outputs apart: two names that differ in
\* more than the text before the granule pattern
SameButHead(f, g) ==
    /\ f.kind = "granule" /\ g.kind = "granule"
    /\ [f EXCEPT !.head = ""] = [g EXCEPT !.head = ""]

C26_OutputsCollideOnlyByHead ==
    BothRun =>
        /\ (OUTPUT_FILE[1] = OUTPUT_FILE[2])
               <=> SameButHead(oinputs[1], oinputs[2])
        /\ odirectory[OUTPUT_FILE[2]].INPUT = oinputs[2]

C26_Example ==
    /\ BothRun
    /\ oinputs[1].kind = "granule" /\ oinputs[1].head = ""
    /\ oinputs[2] = [oinputs[1] EXCEPT !.head = "processed_"]
    /\ OUTPUT_FILE[1] = OUTPUT_FILE[2]
    /\ odirectory[OUTPUT_FILE[1]].INPUT = oinputs[2]

(***************************************************************************)
(* Claims settled under SpecPass                                           *)
(***************************************************************************)
InputPairs == {x[1] : x \in DOMAIN pinput}
OutputGroups == {x[1] : x \in DOMAIN pfile}

\* C28: for every beam pair of the input the driver writes the along-track
\* and crossing-track ref_pt, cycle_number, delta_time, latitude and
\* longitude with exactly the values read; computing the tide masks and the
\* sentinel values changes none of these arrays in memory; and every beam
\* pair of the input is one group of the output.
C28_PassThrough ==
    /\ (ppc # "read") =>
          \A x \in DOMAIN pinput :
              /\ heap[<<"mds", x[1], x[2], x[3]>>] = pinput[x]
              /\ <<"local", x[1], x[2], x[3]>> \in DOMAIN heap =>
                     heap[<<"local", x[1], x[2], x[3]>>] = pinput[x]
    /\ (ppc = "done") =>
          /\ OutputGroups = InputPairs
          /\ \A x \in DOMAIN pinput : x \in DOMAIN pfile /\ pfile[x] = pinput[x]

\* two pairs, a crossing-track delta_time at the fill value and a point the
\* model masks: the tide is the sentinel there and the arrays are as read
C28_Witness ==
    /\ ppc = "done"
    /\ InputPairs = PassPairs
    /\ pinput[<<"pt3", "XT", "delta_time">>][1].fill
    /\ pfile[<<"pt3", "XT", "tide">>][1].data = "fill"
    /\ pfile[<<"pt1", "AT", "tide">>][NPoints].mask
    /\ ~pfile[<<"pt1", "AT", "delta_time">>][NPoints].fill
    /\ pfile[<<"pt3", "XT", "cycle_number">>] = pinput[<<"pt3", "XT", "cycle_number">>]

====
